---------------------------- MODULE Spec2Model ----------------------------
(***************************************************************************)
(* Model of the deterministic evaluator of investor_agent                  *)
(* (src/src/eval/openai_evals_runner.py): the three grader primitives,     *)
(* evaluate_response, the per-question body of run_evaluation and          *)
(* _calculate_summary; of the judgment evaluator (src/src/eval/            *)
(* llm_judge.py); of the test runner and the agent's conversation history  *)
(* (src/src/eval/test_runner.py, src/src/agent/research_agent.py); of      *)
(* main and run_both_evaluators (src/src/eval/run_evaluation.py: command   *)
(* line, result files, exit status), of the comparator                     *)
(* (src/src/eval/compare_evaluators.py) and of ResearchAgent.chat run      *)
(* call by call against scripted completion replies.                       *)
(*                                                                         *)
(* Strings are TLA+ strings, read character by character with SubSeq.      *)
(* Scores are Python floats in the source; here they are exact rationals   *)
(* <<numerator, denominator>> in lowest terms, so that the thresholds      *)
(* (>= 0.7, >= 0.5) and the weighted sum are computed, not assumed.        *)
(***************************************************************************)
EXTENDS Integers, Sequences, FiniteSets, TLC

VARIABLES
    test_q,        \* the test question being handled (run_evaluation's test_q)
    response,      \* the agent's response text for test_q
    agent_failed,  \* TRUE when the agent invocation raised
    now,           \* the wall clock read by datetime.now()
    results,       \* the record returned by the latest evaluate_response
    prev_results,  \* the record returned by the run before it
    runs,          \* how many times the transcript has been evaluated
    call,          \* the latest direct call of a grader primitive and its result
    evaluations,   \* the batch of records handed to _calculate_summary
    summary,       \* the summary _calculate_summary returned for the batch
    pc,            \* position in run_evaluation's loop body
    questions,     \* test_data["questions"], the test set of a batch
    messages,      \* the agent's conversation history (ResearchAgent.messages)
    agent_responses, \* TestRunner.agent_responses, the transcripts collected so far
    invocations,   \* the calls of agent.chat so far: who called, for which question
    judge_prompts, \* what was sent to the judgment service, one entry per call
    judge_replies, \* what the judgment service did on each call
    llm_results,   \* the result set of the judgment evaluator
    evals_results, \* the result set of the deterministic evaluator
    args,          \* the command line of run_evaluation.py as argparse returns it
    files,         \* the files on disk: the test set and the result files, by path
    exit_code      \* the exit status of run_evaluation.py, -1 while it runs

\* the state of the batch runners, the judge and the comparator
cli == <<args, files, exit_code>>

pipeline ==
    <<questions, messages, agent_responses, invocations, judge_prompts,
      judge_replies, llm_results, evals_results, cli>>

vars ==
    <<test_q, response, agent_failed, now, results, prev_results, runs, call,
      evaluations, summary, pc, pipeline>>

---------------------------------------------------------------------------
(* Bounds of the model *)

MaxKeywords == 2      \* longest must_include list drawn
MaxRuns == 2          \* evaluations of one transcript
MaxBatch == 3         \* longest batch handed to _calculate_summary

---------------------------------------------------------------------------
(* Rational arithmetic standing for Python's float arithmetic *)

RECURSIVE GCD(_, _)
GCD(a, b) == IF b = 0 THEN a ELSE GCD(b, a % b)

Rat(n, d) == LET g == GCD(n, d) IN <<n \div g, d \div g>>

RAdd(x, y) == Rat(x[1] * y[2] + y[1] * x[2], x[2] * y[2])

RMul(x, y) == Rat(x[1] * y[1], x[2] * y[2])

RGeq(x, y) == x[1] * y[2] >= y[1] * x[2]

RECURSIVE RSum(_)
RSum(xs) == IF xs = <<>> THEN Rat(0, 1) ELSE RAdd(xs[1], RSum(Tail(xs)))

---------------------------------------------------------------------------
(* Python string operations *)

UpperCase == "ABCDEFGHIJKLMNOPQRSTUVWXYZ"
LowerCase == "abcdefghijklmnopqrstuvwxyz"
Digits == {"0", "1", "2", "3", "4", "5", "6", "7", "8", "9"}
Whitespace == {" ", "\t", "\n"}

CharAt(s, i) == SubSeq(s, i, i)

\* the lower-case letter of each upper-case letter
LowerOf ==
    [c \in {CharAt(UpperCase, i) : i \in 1..Len(UpperCase)} |->
        CharAt(LowerCase, CHOOSE i \in 1..Len(UpperCase) : CharAt(UpperCase, i) = c)]

\* str.lower() of one character
LowerChar(c) == IF c \in DOMAIN LowerOf THEN LowerOf[c] ELSE c

\* str.lower()
RECURSIVE Lower(_)
Lower(s) ==
    IF s = "" THEN "" ELSE LowerChar(CharAt(s, 1)) \o Lower(SubSeq(s, 2, Len(s)))

\* sub in s, at position i
MatchAt(s, i, sub) == i >= 1 /\ i + Len(sub) - 1 <= Len(s) /\ SubSeq(s, i, i + Len(sub) - 1) = sub

\* sub in s
Contains(s, sub) == \E i \in 1..(Len(s) + 1) : MatchAt(s, i, sub)

\* str.strip()
RECURSIVE LStrip(_)
LStrip(s) ==
    IF s # "" /\ CharAt(s, 1) \in Whitespace THEN LStrip(SubSeq(s, 2, Len(s))) ELSE s

RECURSIVE RStrip(_)
RStrip(s) ==
    IF s # "" /\ CharAt(s, Len(s)) \in Whitespace THEN RStrip(SubSeq(s, 1, Len(s) - 1)) ELSE s

Strip(s) == RStrip(LStrip(s))

\* keyword.split("|")
RECURSIVE Split(_)
Split(s) ==
    LET bars == {i \in 1..Len(s) : CharAt(s, i) = "|"}
    IN IF bars = {} THEN <<s>>
       ELSE LET i == CHOOSE k \in bars : \A j \in bars : k <= j
            IN <<SubSeq(s, 1, i - 1)>> \o Split(SubSeq(s, i + 1, Len(s)))

\* dict.get(key, default)
DictGet(d, key, default) == IF key \in DOMAIN d THEN d[key] ELSE default

---------------------------------------------------------------------------
(* grade_keyword_inclusion *)

PassThreshold == Rat(7, 10)

\* the loop over one keyword's alternatives: the entries it appends to
\* found_keywords (the first alternative found, then break)
RECURSIVE AlternativesLoop(_, _)
AlternativesLoop(alternatives, response_lower) ==
    IF alternatives = <<>> THEN <<>>
    ELSE IF Contains(response_lower, Lower(Strip(alternatives[1])))
         THEN <<Strip(alternatives[1])>>
         ELSE AlternativesLoop(Tail(alternatives), response_lower)

\* the same loop without the break: every alternative found is appended
RECURSIVE AlternativesLoopNoBreak(_, _)
AlternativesLoopNoBreak(alternatives, response_lower) ==
    IF alternatives = <<>> THEN <<>>
    ELSE (IF Contains(response_lower, Lower(Strip(alternatives[1])))
          THEN <<Strip(alternatives[1])>> ELSE <<>>)
         \o AlternativesLoopNoBreak(Tail(alternatives), response_lower)

FoundForKeywordNoBreak(keyword, response_lower) ==
    AlternativesLoopNoBreak(Split(keyword), response_lower)

FoundForKeyword(keyword, response_lower) ==
    AlternativesLoop(Split(keyword), response_lower)

\* the loop over required_keywords: found_keywords and missing_keywords
RECURSIVE KeywordLoop(_, _)
KeywordLoop(required_keywords, response_lower) ==
    IF required_keywords = <<>>
    THEN [found_keywords |-> <<>>, missing_keywords |-> <<>>]
    ELSE LET keyword == required_keywords[1]
             hit == FoundForKeyword(keyword, response_lower)
             rest == KeywordLoop(Tail(required_keywords), response_lower)
         IN [found_keywords |-> hit \o rest.found_keywords,
             missing_keywords |->
                 (IF hit = <<>> THEN <<keyword>> ELSE <<>>) \o rest.missing_keywords]

\* the score of the partial-credit branch on an empty list
EmptyListScore == Rat(0, 1)

KeywordScore(found_keywords, missing_keywords, required_keywords, partial_credit) ==
    IF partial_credit
    THEN IF required_keywords # <<>>
         THEN Rat(Len(found_keywords), Len(required_keywords))
         ELSE EmptyListScore
    ELSE IF Len(missing_keywords) = 0 THEN Rat(1, 1) ELSE Rat(0, 1)

grade_keyword_inclusion(resp, required_keywords, partial_credit) ==
    LET loop == KeywordLoop(required_keywords, Lower(resp))
        score == KeywordScore(loop.found_keywords, loop.missing_keywords,
                              required_keywords, partial_credit)
    IN [score |-> score,
        passed |-> RGeq(score, PassThreshold),
        found_keywords |-> loop.found_keywords,
        missing_keywords |-> loop.missing_keywords,
        grader |-> "keyword_inclusion"]

---------------------------------------------------------------------------
(* grade_citation_quality *)

\* number of consecutive characters of s from position i that are in cls
RECURSIVE RunLength(_, _, _)
RunLength(s, i, cls) ==
    IF i <= Len(s) /\ CharAt(s, i) \in cls THEN 1 + RunLength(s, i + 1, cls) ELSE 0

\* re.search of a literal pattern with re.IGNORECASE
SearchLiteral(pattern, s) == Contains(Lower(s), Lower(pattern))

\* re.search(r"Page \d+", s, re.IGNORECASE)
SearchPage(s) ==
    LET low == Lower(s)
    IN \E i \in 1..Len(s) : MatchAt(low, i, "page ") /\ RunLength(s, i + 5, Digits) >= 1

\* re.search(r"\(Page \d+\)", s, re.IGNORECASE)
SearchParenPage(s) ==
    LET low == Lower(s)
    IN \E i \in 1..Len(s) :
        /\ MatchAt(low, i, "(page ")
        /\ RunLength(s, i + 6, Digits) >= 1
        /\ MatchAt(s, i + 6 + RunLength(s, i + 6, Digits), ")")

CitationLiterals ==
    <<"according to", "UBS House View",
      "March 2025", "June 2024", "June 2025", "November 2024">>

has_citations(resp) ==
    \/ \E k \in 1..Len(CitationLiterals) : SearchLiteral(CitationLiterals[k], resp)
    \/ SearchPage(resp)
    \/ SearchParenPage(resp)

Months == <<"March", "June", "November", "April">>

\* a separator the key-part pattern accepts between month and year: \s
KeyPartSeparators == Whitespace

\* the end position of a match of (March|June|November|April)\s*\d{4} that
\* starts at position i with month m, 0 when there is none
KeyPartEnd(s, i, m) ==
    IF ~MatchAt(s, i, m) THEN 0
    ELSE LET j == i + Len(m) + RunLength(s, i + Len(m), KeyPartSeparators)
         IN IF RunLength(s, j, Digits) >= 4 THEN j + 3 ELSE 0

\* re.findall(r"(March|June|November|April)\s*\d{4}", s) scanning from i:
\* the pattern has one group, so findall returns the group (the month) alone
RECURSIVE FindAllKeyParts(_, _)
FindAllKeyParts(s, i) ==
    IF i > Len(s) THEN <<>>
    ELSE LET hit == {k \in 1..Len(Months) : KeyPartEnd(s, i, Months[k]) > 0}
         IN IF hit = {} THEN FindAllKeyParts(s, i + 1)
            ELSE LET k == CHOOSE x \in hit : \A y \in hit : x <= y
                 IN <<Months[k]>> \o FindAllKeyParts(s, KeyPartEnd(s, i, Months[k]) + 1)

key_parts(source) == FindAllKeyParts(source, 1)

\* for part in key_parts: if part.lower() in response.lower(): ... break
SourceMentioned(source, resp) ==
    LET parts == key_parts(source)
        low == Lower(resp)
    IN \E k \in 1..Len(parts) : Contains(low, Lower(parts[k]))

\* the loop over expected_sources
RECURSIVE sources_mentioned(_, _)
sources_mentioned(expected_sources, resp) ==
    IF expected_sources = <<>> THEN <<>>
    ELSE (IF SourceMentioned(expected_sources[1], resp)
          THEN <<expected_sources[1]>> ELSE <<>>)
         \o sources_mentioned(Tail(expected_sources), resp)

\* the scoring ladder with its second and third rungs exchanged
CitationScoringSwapped(has, mentioned) ==
    IF has /\ mentioned # <<>> THEN [score |-> Rat(1, 1), quality |-> "excellent"]
    ELSE IF mentioned # <<>> THEN [score |-> Rat(7, 10), quality |-> "good"]
    ELSE IF has THEN [score |-> Rat(5, 10), quality |-> "partial"]
    ELSE [score |-> Rat(0, 1), quality |-> "none"]

CitationScoring(has, mentioned) ==
    IF has /\ mentioned # <<>> THEN [score |-> Rat(1, 1), quality |-> "excellent"]
    ELSE IF has THEN [score |-> Rat(7, 10), quality |-> "good"]
    ELSE IF mentioned # <<>> THEN [score |-> Rat(5, 10), quality |-> "partial"]
    ELSE [score |-> Rat(0, 1), quality |-> "none"]

CitationPassedAlways(score) == RGeq(score, Rat(0, 1))

CitationPassed(score) == RGeq(score, Rat(5, 10))

grade_citation_quality(resp, expected_sources) ==
    LET has == has_citations(resp)
        mentioned == sources_mentioned(expected_sources, resp)
        scoring == CitationScoring(has, mentioned)
    IN [score |-> scoring.score,
        passed |-> CitationPassed(scoring.score),
        has_citation_format |-> has,
        sources_mentioned |-> mentioned,
        citation_quality |-> scoring.quality,
        grader |-> "citation_quality"]

---------------------------------------------------------------------------
(* grade_compliance *)

compliance_keywords ==
    <<"investment advice", "financial advisor", "licensed advisor", "consult",
      "personalized advice", "not covered", "not found", "not available",
      "cannot", "unable to">>

\* [kw for kw in compliance_keywords if kw in response_lower]
compliance_found(response_lower) ==
    SelectSeq(compliance_keywords, LAMBDA kw : Contains(response_lower, kw))

DisclaimerCategoriesShort == {"comparative"}

DisclaimerCategories == {"comparative", "edge_cases"}

ComplianceScore(response_lower, question_category) ==
    IF question_category \in DisclaimerCategories
    THEN LET required ==
                 \E k \in 1..Len(compliance_keywords) :
                     Contains(response_lower, compliance_keywords[k])
         IN IF required THEN Rat(1, 1) ELSE Rat(5, 10)
    ELSE IF compliance_found(response_lower) # <<>> THEN Rat(1, 1) ELSE Rat(8, 10)

grade_compliance(resp, question_category) ==
    LET response_lower == Lower(resp)
        score == ComplianceScore(response_lower, question_category)
    IN [score |-> score,
        passed |-> RGeq(score, PassThreshold),
        compliance_indicators |-> compliance_found(response_lower),
        grader |-> "compliance"]

---------------------------------------------------------------------------
(* evaluate_response *)

Skipped == [score |-> Rat(1, 1), passed |-> TRUE, grader |-> "skipped"]

CheckOrder == <<"keyword_check", "citation_check", "compliance_check">>

WeightsEqual ==
    [keyword_check |-> Rat(4, 10), citation_check |-> Rat(3, 10),
     compliance_check |-> Rat(3, 10)]

Weights ==
    [keyword_check |-> Rat(5, 10), citation_check |-> Rat(3, 10),
     compliance_check |-> Rat(2, 10)]

\* sum(results[check]["score"] * weights[check] for check in weights if check in results)
RECURSIVE WeightedSum(_, _)
WeightedSum(res, checks) ==
    IF checks = <<>> THEN Rat(0, 1)
    ELSE LET rest == WeightedSum(res, SubSeq(checks, 1, Len(checks) - 1))
             check == checks[Len(checks)]
         IN IF check \in DOMAIN res
            THEN RAdd(rest, RMul(res[check].score, Weights[check]))
            ELSE rest

\* evaluate_response whose compliance grader stamps its result with the clock
evaluate_response_stamped(question_id, question, resp, ground_truth, evaluation_criteria, source_docs, category, clock) ==
    LET must_include == DictGet(evaluation_criteria, "must_include", <<>>)
        should_cite == DictGet(evaluation_criteria, "should_cite", TRUE)
        checks ==
            [keyword_check |->
                 IF must_include # <<>>
                 THEN grade_keyword_inclusion(resp, must_include, TRUE)
                 ELSE Skipped,
             citation_check |->
                 IF should_cite /\ source_docs # <<>>
                 THEN grade_citation_quality(resp, source_docs)
                 ELSE Skipped,
             compliance_check |->
                 [timestamp |-> clock] @@ grade_compliance(resp, category)]
        overall_score == WeightedSum(checks, CheckOrder)
    IN [question_id |-> question_id,
        question |-> question,
        category |-> category,
        timestamp |-> clock,
        keyword_check |-> checks.keyword_check,
        citation_check |-> checks.citation_check,
        compliance_check |-> checks.compliance_check,
        overall_score |-> overall_score,
        passed |-> RGeq(overall_score, PassThreshold)]

evaluate_response(question_id, question, resp, ground_truth, evaluation_criteria, source_docs, category, clock) ==
    LET must_include == DictGet(evaluation_criteria, "must_include", <<>>)
        should_cite == DictGet(evaluation_criteria, "should_cite", TRUE)
        checks ==
            [keyword_check |->
                 IF must_include # <<>>
                 THEN grade_keyword_inclusion(resp, must_include, TRUE)
                 ELSE Skipped,
             citation_check |->
                 IF should_cite /\ source_docs # <<>>
                 THEN grade_citation_quality(resp, source_docs)
                 ELSE Skipped,
             compliance_check |-> grade_compliance(resp, category)]
        overall_score == WeightedSum(checks, CheckOrder)
    IN [question_id |-> question_id,
        question |-> question,
        category |-> category,
        timestamp |-> clock,
        keyword_check |-> checks.keyword_check,
        citation_check |-> checks.citation_check,
        compliance_check |-> checks.compliance_check,
        overall_score |-> overall_score,
        passed |-> RGeq(overall_score, PassThreshold)]

---------------------------------------------------------------------------
(* Inputs: test questions, agent responses, agent failures *)

RECURSIVE SeqsUpTo(_, _)
SeqsUpTo(S, n) ==
    IF n = 0 THEN {<<>>}
    ELSE LET shorter == SeqsUpTo(S, n - 1)
         IN shorter \cup {Append(q, x) : q \in shorter, x \in S}

KeywordItems == {"S&P 500 | SPX", "target|6,600"}

\* a list of four required keywords, so that three of four can be found
LongKeywordList == <<"S&P 500 | SPX", "target|6,600", "march", "UBS">>

KeywordLists == SeqsUpTo(KeywordItems, MaxKeywords) \cup {LongKeywordList}

SourceLists ==
    {<<"UBS_House_View_March_2025.pdf">>,
     <<"UBS House View March 2025.pdf">>,
     <<"JPMorgan_Market_Outlook_2025.pdf", "UBS_House_View_June2024.pdf">>}

Categories == {"factual_recall", "comparative", "edge_cases"}

\* evaluation_criteria dictionaries: each key present or absent
CriteriaSet ==
    {mi @@ sc :
        mi \in {<<>>} \cup {[must_include |-> k] : k \in KeywordLists},
        sc \in {<<>>, [should_cite |-> FALSE]}}

TestCases ==
    {[id |-> "q1", question |-> "What is the S&P 500 target?",
      ground_truth |-> "6,600", category |-> c] @@ ec @@ sd :
        c \in Categories,
        ec \in {<<>>} \cup {[evaluation_criteria |-> e] : e \in CriteriaSet},
        sd \in {<<>>} \cup {[source_documents |-> d] : d \in SourceLists}}

Responses ==
    {"",
     "The target is 6,600",
     "S&P 500 target 6600",
     "According to UBS House View March 2025 (Page 17)",
     "spx target set in march",
     "Page 5: I cannot say",
     "Consult a licensed advisor"}

Exceptions == {"timeout", "index not found"}

---------------------------------------------------------------------------
(* The body of run_evaluation's loop for one test question *)

NoResults == [question_id |-> ""]
NoCall == [fn |-> ""]
NoSummary == [total_evaluated |-> 0]
NoQuestion == [id |-> ""]
NoResultSet == [evaluations |-> <<>>]
NoArgs == [evaluator |-> ""]
NoFiles == <<>>

\* run_evaluation.py has not been started
CliIdle ==
    /\ args = NoArgs
    /\ files = NoFiles
    /\ exit_code = -1

\* no batch has been started
PipelineIdle ==
    /\ questions = <<>>
    /\ messages = <<>>
    /\ agent_responses = <<>>
    /\ invocations = <<>>
    /\ judge_prompts = <<>>
    /\ judge_replies = <<>>
    /\ llm_results = NoResultSet
    /\ evals_results = NoResultSet
    /\ CliIdle

Init ==
    /\ test_q \in TestCases
    /\ response = ""
    /\ agent_failed = FALSE
    /\ now = 0
    /\ results = NoResults
    /\ prev_results = NoResults
    /\ runs = 0
    /\ call = NoCall
    /\ evaluations = <<>>
    /\ summary = NoSummary
    /\ pc = "chat"
    /\ PipelineIdle

\* response = self.agent.chat(test_q["question"])
AgentResponds ==
    /\ pc = "chat"
    /\ \E r \in Responses : response' = r
    /\ agent_failed' = FALSE
    /\ pc' = "evaluate"
    /\ UNCHANGED <<test_q, now, results, prev_results, runs, call, evaluations, summary>>
    /\ UNCHANGED pipeline

\* except Exception as e: response = f"ERROR: {e}"
AgentRaises ==
    /\ pc = "chat"
    /\ \E e \in Exceptions : response' = "ERROR: " \o e
    /\ agent_failed' = TRUE
    /\ pc' = "evaluate"
    /\ UNCHANGED <<test_q, now, results, prev_results, runs, call, evaluations, summary>>
    /\ UNCHANGED pipeline

\* eval_result = self.evaluate_response(...); datetime.now() is read once per call
EvaluateResponse ==
    /\ pc \in {"evaluate", "evaluated"}
    /\ runs < MaxRuns
    /\ \E t \in {now, now + 1} :
        /\ now' = t
        /\ results' = evaluate_response(
                          test_q.id, test_q.question, response, test_q.ground_truth,
                          DictGet(test_q, "evaluation_criteria", <<>>),
                          DictGet(test_q, "source_documents", <<>>),
                          test_q.category, t)
    /\ prev_results' = results
    /\ runs' = runs + 1
    /\ pc' = "evaluated"
    /\ UNCHANGED <<test_q, response, agent_failed, call, evaluations, summary>>
    /\ UNCHANGED pipeline

Next == AgentResponds \/ AgentRaises \/ EvaluateResponse

Spec == Init /\ [][Next]_vars

---------------------------------------------------------------------------
(* The grader primitives called on their own *)

GraderKeywordItems == KeywordItems \cup {"6,600|6600", "FED"}

GraderKeywordLists == SeqsUpTo(GraderKeywordItems, MaxKeywords)

GraderResponses == Responses \cup {"ERROR: " \o e : e \in Exceptions}

InitGraders ==
    /\ test_q = NoQuestion
    /\ response = ""
    /\ agent_failed = FALSE
    /\ now = 0
    /\ results = NoResults
    /\ prev_results = NoResults
    /\ runs = 0
    /\ call = NoCall
    /\ evaluations = <<>>
    /\ summary = NoSummary
    /\ pc = "idle"
    /\ PipelineIdle

GradeKeywordInclusion ==
    /\ pc = "idle"
    /\ \E r \in GraderResponses, k \in GraderKeywordLists, p \in BOOLEAN :
        call' = [fn |-> "grade_keyword_inclusion", response |-> r,
                 required_keywords |-> k, partial_credit |-> p,
                 result |-> grade_keyword_inclusion(r, k, p)]
    /\ pc' = "returned"
    /\ UNCHANGED <<test_q, response, agent_failed, now, results, prev_results, runs,
                   evaluations, summary>>
    /\ UNCHANGED pipeline

GradeCitationQuality ==
    /\ pc = "idle"
    /\ \E r \in GraderResponses, d \in SourceLists \cup {<<>>} :
        call' = [fn |-> "grade_citation_quality", response |-> r,
                 expected_sources |-> d,
                 result |-> grade_citation_quality(r, d)]
    /\ pc' = "returned"
    /\ UNCHANGED <<test_q, response, agent_failed, now, results, prev_results, runs,
                   evaluations, summary>>
    /\ UNCHANGED pipeline

GradeCompliance ==
    /\ pc = "idle"
    /\ \E r \in GraderResponses, c \in Categories \cup {"synthesis"} :
        call' = [fn |-> "grade_compliance", response |-> r,
                 question_category |-> c,
                 result |-> grade_compliance(r, c)]
    /\ pc' = "returned"
    /\ UNCHANGED <<test_q, response, agent_failed, now, results, prev_results, runs,
                   evaluations, summary>>
    /\ UNCHANGED pipeline

NextGraders == GradeKeywordInclusion \/ GradeCitationQuality \/ GradeCompliance

SpecGraders == InitGraders /\ [][NextGraders]_vars

---------------------------------------------------------------------------
(* _calculate_summary *)

\* sum(xs) / len(xs) if xs else 0
Mean(xs) == IF Len(xs) > 0 THEN RMul(RSum(xs), Rat(1, Len(xs))) ELSE Rat(0, 1)

\* e.get("passed", False)
GetPassed(e) == DictGet(e, "passed", FALSE)

\* [e[field] for e in evals]
FieldOf(evals, field) == [i \in 1..Len(evals) |-> evals[i][field]]

\* [e[check]["score"] for e in evals]
CheckScores(evals, check) == [i \in 1..Len(evals) |-> evals[i][check].score]

\* sum(1 for e in evals if e.get("passed", False))
PassCount(evals) == Len(SelectSeq(evals, GetPassed))

\* the evaluations of category cat, in batch order
OfCategory(evals, cat) == SelectSeq(evals, LAMBDA e : e.category = cat)

\* the entry of category_stats for cat with the pass count of the whole batch
CategoryStatsAllPassed(evals, cat) ==
    LET scores == FieldOf(OfCategory(evals, cat), "overall_score")
    IN [count |-> Len(scores),
        passed |-> PassCount(evals),
        scores |-> scores,
        avg_score |-> Mean(scores)]

\* the entry of category_stats for cat after the loop over evaluations
CategoryStats(evals, cat) ==
    LET scores == FieldOf(OfCategory(evals, cat), "overall_score")
    IN [count |-> Len(scores),
        passed |-> PassCount(OfCategory(evals, cat)),
        scores |-> scores,
        avg_score |-> Mean(scores)]

\* _calculate_summary with the skipped checks in the keyword and citation means
_calculate_summary_with_skipped(evals) ==
    IF evals = <<>> THEN <<>>
    ELSE
    LET cats == {evals[i].category : i \in 1..Len(evals)}
    IN [overall_average |-> Mean(FieldOf(evals, "overall_score")),
        pass_rate |-> Rat(PassCount(evals), Len(evals)),
        avg_keyword_score |->
            Mean(CheckScores(SelectSeq(evals, LAMBDA e : "keyword_check" \in DOMAIN e),
                             "keyword_check")),
        avg_citation_score |->
            Mean(CheckScores(SelectSeq(evals, LAMBDA e : "citation_check" \in DOMAIN e),
                             "citation_check")),
        avg_compliance_score |->
            Mean(CheckScores(SelectSeq(evals, LAMBDA e : "compliance_check" \in DOMAIN e),
                             "compliance_check")),
        total_evaluated |-> Len(evals),
        category_breakdown |-> [cat \in cats |-> CategoryStats(evals, cat)]]

\* OpenAIEvalsRunner._calculate_summary
_calculate_summary(evals) ==
    IF evals = <<>> THEN <<>>
    ELSE
    LET overall_scores == FieldOf(evals, "overall_score")
        pass_count == PassCount(evals)
        keyword_scores ==
            CheckScores(SelectSeq(evals, LAMBDA e : "keyword_check" \in DOMAIN e
                                                    /\ e.keyword_check.grader # "skipped"),
                        "keyword_check")
        citation_scores ==
            CheckScores(SelectSeq(evals, LAMBDA e : "citation_check" \in DOMAIN e
                                                    /\ e.citation_check.grader # "skipped"),
                        "citation_check")
        compliance_scores ==
            CheckScores(SelectSeq(evals, LAMBDA e : "compliance_check" \in DOMAIN e),
                        "compliance_check")
        cats == {evals[i].category : i \in 1..Len(evals)}
    IN [overall_average |-> Mean(overall_scores),
        pass_rate |-> Rat(pass_count, Len(evals)),
        avg_keyword_score |-> Mean(keyword_scores),
        avg_citation_score |-> Mean(citation_scores),
        avg_compliance_score |-> Mean(compliance_scores),
        total_evaluated |-> Len(evals),
        category_breakdown |-> [cat \in cats |-> CategoryStats(evals, cat)]]

\* Deterministic records as evaluate_response closes them: passed is
\* overall_score >= 0.7
SummaryScores == {Rat(0, 1), Rat(1, 2), Rat(7, 10), Rat(1, 1)}

SummaryCategories == {"factual_recall", "edge_cases"}

SummaryRecords ==
    {[question_id |-> "q", category |-> c, overall_score |-> x,
      passed |-> RGeq(x, PassThreshold)] :
        c \in SummaryCategories, x \in SummaryScores}

InitSummary ==
    /\ test_q = NoQuestion
    /\ response = ""
    /\ agent_failed = FALSE
    /\ now = 0
    /\ results = NoResults
    /\ prev_results = NoResults
    /\ runs = 0
    /\ call = NoCall
    /\ evaluations \in SeqsUpTo(SummaryRecords, MaxBatch)
    /\ summary = NoSummary
    /\ pc = "summarize"
    /\ PipelineIdle

\* results["summary"] = self._calculate_summary(results["evaluations"])
CalculateSummary ==
    /\ pc = "summarize"
    /\ summary' = _calculate_summary(evaluations)
    /\ pc' = "summarized"
    /\ UNCHANGED <<test_q, response, agent_failed, now, results, prev_results, runs,
                   call, evaluations>>
    /\ UNCHANGED pipeline

NextSummary == CalculateSummary

SpecSummary == InitSummary /\ [][NextSummary]_vars

---------------------------------------------------------------------------
(* Properties of the deterministic evaluator *)

Evaluated == pc = "evaluated"

\* what the test question asks evaluate_response to grade
MustInclude(tq) == DictGet(DictGet(tq, "evaluation_criteria", <<>>), "must_include", <<>>)
ShouldCite(tq) == DictGet(DictGet(tq, "evaluation_criteria", <<>>), "should_cite", TRUE)
SourceDocs(tq) == DictGet(tq, "source_documents", <<>>)
KeywordSkipped(tq) == MustInclude(tq) = <<>>
CitationSkipped(tq) == ~(ShouldCite(tq) /\ SourceDocs(tq) # <<>>)

\* C1: every record evaluate_response returns has overall_score =
\* 0.5*keyword + 0.3*citation + 0.2*compliance, a check skipped for the test
\* case enters at score 1.0, and passed is exactly overall_score >= 0.7.
C1_WeightedOverall ==
    Evaluated =>
        LET k == results.keyword_check.score
            c == results.citation_check.score
            m == results.compliance_check.score
        IN /\ results.overall_score[1] * 10 * k[2] * c[2] * m[2] =
                  (5 * k[1] * c[2] * m[2] + 3 * c[1] * k[2] * m[2] + 2 * m[1] * k[2] * c[2])
                  * results.overall_score[2]
           /\ KeywordSkipped(test_q) => k = <<1, 1>>
           /\ CitationSkipped(test_q) => c = <<1, 1>>
           /\ results.passed <=> (results.overall_score[1] * 10 >= 7 * results.overall_score[2])

\* a record whose keyword check was skipped and whose citation check scored 0
C1_Witness ==
    /\ Evaluated
    /\ KeywordSkipped(test_q)
    /\ results.keyword_check.grader = "skipped"
    /\ results.citation_check.grader = "citation_quality"
    /\ results.citation_check.score = <<0, 1>>
    /\ results.overall_score = <<33, 50>>
    /\ ~results.passed

KeywordCall == call.fn = "grade_keyword_inclusion"
CitationCall == call.fn = "grade_citation_quality"
ComplianceCall == call.fn = "grade_compliance"

\* the '|'-separated alternatives of a required item: its maximal bar-free
\* segments, surrounding white space removed
ItemAlternatives(item) ==
    {Strip(SubSeq(item, i, j)) : <<i, j>> \in
        {x \in (1..(Len(item) + 1)) \X (0..Len(item)) :
            /\ x[1] <= x[2] + 1
            /\ \A n \in x[1]..x[2] : CharAt(item, n) # "|"
            /\ (x[1] = 1 \/ CharAt(item, x[1] - 1) = "|")
            /\ (x[2] = Len(item) \/ CharAt(item, x[2] + 1) = "|")}}

ItemSatisfied(item, resp) ==
    \E a \in ItemAlternatives(item) : Contains(Lower(resp), Lower(a))

\* C2: with partial credit and a non-empty list, grade_keyword_inclusion's
\* score is (items with at least one alternative contained in the response,
\* case-insensitively) / (items), each item counted once, and passed is
\* exactly score >= 0.7.
C2_KeywordScore ==
    (KeywordCall /\ call.partial_credit /\ call.required_keywords # <<>>) =>
        LET req == call.required_keywords
            satisfied == {i \in 1..Len(req) : ItemSatisfied(req[i], call.response)}
        IN /\ call.result.score[1] * Len(req) = Cardinality(satisfied) * call.result.score[2]
           /\ call.result.passed <=> (10 * Cardinality(satisfied) >= 7 * Len(req))

\* one item with two alternatives both in the response, one item missing
C2_Witness ==
    /\ KeywordCall
    /\ call.partial_credit
    /\ Len(call.required_keywords) = 2
    /\ \E i \in 1..2 :
        Cardinality({a \in ItemAlternatives(call.required_keywords[i]) :
                        Contains(Lower(call.response), Lower(a))}) = 2
    /\ call.result.score = <<1, 2>>
    /\ ~call.result.passed

\* C3: the citation grader's score and quality follow from (pattern present,
\* source mentioned): both -> 1.0 excellent, pattern only -> 0.7 good, source
\* only -> 0.5 partial, neither -> 0.0 none; passed is exactly score >= 0.5.
C3_CitationLadder ==
    CitationCall =>
        LET has == call.result.has_citation_format
            men == Len(call.result.sources_mentioned) > 0
            r == call.result
        IN /\ (has /\ men) => (r.score = <<1, 1>> /\ r.citation_quality = "excellent")
           /\ (has /\ ~men) => (r.score = <<7, 10>> /\ r.citation_quality = "good")
           /\ (~has /\ men) => (r.score = <<1, 2>> /\ r.citation_quality = "partial")
           /\ (~has /\ ~men) => (r.score = <<0, 1>> /\ r.citation_quality = "none")
           /\ r.passed <=> (2 * r.score[1] >= r.score[2])
           /\ r.score \in {<<0, 1>>, <<1, 2>>, <<7, 10>>, <<1, 1>>}

\* a source mention without any citation pattern
C3_Witness ==
    /\ CitationCall
    /\ ~call.result.has_citation_format
    /\ Len(call.result.sources_mentioned) = 1
    /\ call.result.citation_quality = "partial"
    /\ call.result.passed

\* the month-plus-year period labels of a source identifier: a month name,
\* then separators (white space or underscore), then a four-digit year
LabelSeparators == Whitespace \cup {"_"}

PeriodLabels(source) ==
    {Months[k] \o " " \o SubSeq(source, p[2], p[2] + 3) : <<k, p>> \in
        {y \in (1..Len(Months)) \X ((1..Len(source)) \X (1..Len(source))) :
            /\ MatchAt(source, y[2][1], Months[y[1]])
            /\ y[2][2] = y[2][1] + Len(Months[y[1]])
                         + RunLength(source, y[2][1] + Len(Months[y[1]]), LabelSeparators)
            /\ RunLength(source, y[2][2], Digits) >= 4}}

LabelInResponse(source, resp) ==
    \E label \in PeriodLabels(source) : Contains(Lower(resp), Lower(label))

\* C4: an expected source counts as mentioned exactly when its month-plus-year
\* period label appears in the response, so a citation phrase together with
\* the label of an expected source scores 1.0 'excellent'.
C4_PeriodLabelMention ==
    CitationCall =>
        /\ \A i \in 1..Len(call.expected_sources) :
            (\E j \in 1..Len(call.result.sources_mentioned) :
                call.result.sources_mentioned[j] = call.expected_sources[i])
            <=> LabelInResponse(call.expected_sources[i], call.response)
        /\ (/\ call.result.has_citation_format
            /\ \E i \in 1..Len(call.expected_sources) :
                LabelInResponse(call.expected_sources[i], call.response))
           => (call.result.score = <<1, 1>> /\ call.result.citation_quality = "excellent")

CompliancePhrases ==
    {"investment advice", "financial advisor", "licensed advisor", "consult",
     "personalized advice", "not covered", "not found", "not available",
     "cannot", "unable to"}

HasCompliancePhrase(resp) == \E ph \in CompliancePhrases : Contains(Lower(resp), ph)

\* C5: the compliance grader scores 1.0 when the response holds a compliance
\* phrase, otherwise 0.5 for comparative and edge_cases and 0.8 for any other
\* category; passed is exactly score >= 0.7.
C5_ComplianceScore ==
    ComplianceCall =>
        LET r == call.result
        IN /\ HasCompliancePhrase(call.response) => r.score = <<1, 1>>
           /\ (~HasCompliancePhrase(call.response)
               /\ call.question_category \in {"comparative", "edge_cases"})
              => (r.score = <<1, 2>> /\ ~r.passed)
           /\ (~HasCompliancePhrase(call.response)
               /\ call.question_category \notin {"comparative", "edge_cases"})
              => (r.score = <<4, 5>> /\ r.passed)
           /\ r.passed <=> (10 * r.score[1] >= 7 * r.score[2])

\* an edge_cases response without a compliance phrase
C5_Witness ==
    /\ ComplianceCall
    /\ call.question_category = "edge_cases"
    /\ ~HasCompliancePhrase(call.response)
    /\ call.result.score = <<1, 2>>
    /\ ~call.result.passed

\* C6: given an empty list of required items the keyword grader reports
\* score 1.0, passed true and the "skipped" marker, both when
\* grade_keyword_inclusion is called with an empty list and when
\* evaluate_response handles a test case without must_include items.
C6_EmptyListSkipped ==
    /\ (KeywordCall /\ call.required_keywords = <<>>) =>
           /\ call.result.score = <<1, 1>>
           /\ call.result.passed
           /\ call.result.grader = "skipped"
    /\ (Evaluated /\ KeywordSkipped(test_q)) =>
           /\ results.keyword_check.score = <<1, 1>>
           /\ results.keyword_check.passed
           /\ results.keyword_check.grader = "skipped"

\* C7: when the agent invocation failed and the error transcript is graded,
\* the record has overall_score < 0.7 and passed = false, whatever the test case.
C7_ErrorTranscriptFails ==
    (Evaluated /\ agent_failed) =>
        /\ results.overall_score[1] * 10 < 7 * results.overall_score[2]
        /\ ~results.passed

\* the sum of the overall scores of the records at the indices in I
RECURSIVE ScoreSumOver(_, _)
ScoreSumOver(evals, I) ==
    IF I = {} THEN <<0, 1>>
    ELSE LET i == CHOOSE x \in I : TRUE
             rest == ScoreSumOver(evals, I \ {i})
             x == evals[i].overall_score
         IN <<x[1] * rest[2] + rest[1] * x[2], x[2] * rest[2]>>

\* r is the mean of the overall scores at the indices in I
IsMeanOver(r, evals, I) ==
    LET total == ScoreSumOver(evals, I)
    IN r[1] * total[2] * Cardinality(I) = total[1] * r[2]

Summarized == pc = "summarized"

\* C8: for a non-empty batch _calculate_summary returns overall_average = mean
\* of the overall scores, pass_rate = passed records / records, and for each
\* category present its count, its number of records scoring >= 0.7 and the
\* mean overall score of the category.
C8_SummaryAggregates ==
    (Summarized /\ evaluations # <<>>) =>
        LET all == 1..Len(evaluations)
            passing == {i \in all : evaluations[i].passed}
            cats == {evaluations[i].category : i \in all}
        IN /\ IsMeanOver(summary.overall_average, evaluations, all)
           /\ summary.pass_rate[1] * Len(evaluations)
                  = Cardinality(passing) * summary.pass_rate[2]
           /\ DOMAIN summary.category_breakdown = cats
           /\ \A cat \in cats :
               LET of == {i \in all : evaluations[i].category = cat}
                   st == summary.category_breakdown[cat]
               IN /\ st.count = Cardinality(of)
                  /\ st.passed =
                         Cardinality({i \in of :
                             10 * evaluations[i].overall_score[1]
                                 >= 7 * evaluations[i].overall_score[2]})
                  /\ IsMeanOver(st.avg_score, evaluations, of)

\* three factual_recall records scoring 1.0, 0.5, 0.0 beside nothing else
C8_Witness ==
    /\ Summarized
    /\ Len(evaluations) = 3
    /\ \A i \in 1..3 : evaluations[i].category = "factual_recall"
    /\ <<evaluations[1].overall_score, evaluations[2].overall_score,
         evaluations[3].overall_score>> = <<(<<1, 1>>), (<<1, 2>>), (<<0, 1>>)>>
    /\ summary.category_breakdown["factual_recall"].avg_score = <<1, 2>>
    /\ summary.category_breakdown["factual_recall"].passed = 1

EvaluatedTwice == Evaluated /\ runs >= 2

RECURSIVE OrderedSum(_, _)
OrderedSum(rec, order) ==
    IF order = <<>> THEN <<0, 1>>
    ELSE LET w == [keyword_check |-> <<5, 10>>, citation_check |-> <<3, 10>>,
                   compliance_check |-> <<2, 10>>][order[1]]
             x == rec[order[1]].score
             rest == OrderedSum(rec, Tail(order))
         IN <<w[1] * x[1] * rest[2] + rest[1] * w[2] * x[2], w[2] * x[2] * rest[2]>>

SameRational(x, y) == x[1] * y[2] = y[1] * x[2]

CheckOrders ==
    {o \in [1..3 -> {"keyword_check", "citation_check", "compliance_check"}] :
        \A i, j \in 1..3 : i # j => o[i] # o[j]}

C10_AllGoodPasses ==
    (/\ Evaluated
     /\ results.keyword_check.score = <<1, 1>>
     /\ results.citation_check.passed
     /\ results.compliance_check.passed)
    => /\ results.overall_score[1] * 10 >= 7 * results.overall_score[2]
       /\ results.passed

\* all keywords found, citation at its pass mark 0.5, compliance at 0.8
C10_Witness ==
    /\ Evaluated
    /\ results.keyword_check.grader = "keyword_inclusion"
    /\ results.keyword_check.score = <<1, 1>>
    /\ results.citation_check.score = <<1, 2>>
    /\ results.citation_check.passed
    /\ results.compliance_check.score = <<4, 5>>
    /\ results.overall_score = <<81, 100>>
    /\ results.passed

---------------------------------------------------------------------------
(* The judgment evaluator (src/src/eval/llm_judge.py) *)

MaxJudgeBatch == 2

\* self.evaluation_criteria
evaluation_criteria ==
    <<"factual_accuracy", "source_attribution", "completeness",
      "hallucination_detection", "compliance">>

CriteriaNames == {evaluation_criteria[i] : i \in 1..Len(evaluation_criteria)}

\* the prompt's rule for the pass flag: overall_score >= 3.5
JudgePassThreshold == Rat(7, 2)

\* self.model
judge_model == "gpt-4-turbo-preview"

\* A JSON value the code reads without knowing its type carries its type
JObject(fields) == [t |-> "object", v |-> fields]
JNumber(n) == [t |-> "number", v |-> n]

\* {"score": s, "reasoning": "..."}
Scored(s) == JObject([score |-> s, reasoning |-> "r"])

\* the five criteria, each scored s
AllCriteria(s) == [c \in CriteriaNames |-> Scored(s)]

\* the function f without the keys in ks
Without(f, ks) == [k \in DOMAIN f \ ks |-> f[k]]

\* The JSON objects the judgment service may answer with
JudgeDocuments ==
    {AllCriteria(4) @@ [overall_score |-> Rat(4, 1), pass |-> TRUE],
     AllCriteria(3) @@ [overall_score |-> Rat(3, 1), pass |-> FALSE],
     AllCriteria(2) @@ [overall_score |-> Rat(9, 2), pass |-> TRUE],
     [AllCriteria(4) EXCEPT !["compliance"] = Scored(9)]
         @@ [overall_score |-> Rat(5, 1), pass |-> TRUE],
     Without(AllCriteria(4), {"compliance"})
         @@ [overall_score |-> Rat(4, 1), pass |-> TRUE],
     [AllCriteria(4) EXCEPT !["factual_accuracy"] = JNumber(4)]
         @@ [overall_score |-> Rat(4, 1), pass |-> TRUE],
     AllCriteria(4) @@ [pass |-> TRUE]}

\* What one call of the judgment service does: the call raises, or it
\* returns content that is not JSON, JSON that is not an object, or an object
JudgeReplies ==
    {[kind |-> "raises", error |-> "rate limit"],
     [kind |-> "content", json |-> "invalid"],
     [kind |-> "content", json |-> "array"]}
    \cup {[kind |-> "content", json |-> "object", value |-> d] : d \in JudgeDocuments}

\* the record of the except branch
ErrorRecord(e, question) ==
    [error |-> e, question |-> question, overall_score |-> Rat(0, 1), pass |-> FALSE]

\* LLMJudge.evaluate_response, given what the service did on this call
judge_evaluate_response(reply, question, category, clock) ==
    IF reply.kind = "raises" THEN ErrorRecord(reply.error, question)
    ELSE IF reply.json = "invalid" THEN ErrorRecord("JSONDecodeError", question)
    ELSE IF reply.json # "object" THEN ErrorRecord("TypeError", question)
    ELSE [question |-> question, category |-> category, timestamp |-> clock,
          judge_model |-> judge_model] @@ reply.value

\* "score" in e[criterion], then e[criterion]["score"]
CriterionScore(e, criterion) ==
    IF criterion \notin DOMAIN e THEN [status |-> "absent"]
    ELSE IF e[criterion].t = "number" THEN [status |-> "TypeError"]
    ELSE IF "score" \notin DOMAIN e[criterion].v THEN [status |-> "absent"]
    ELSE [status |-> "ok", score |-> e[criterion].v.score]

\* [e[criterion]["score"] for e in valid_evals if criterion in e and "score" in e[criterion]]
ScoresOf(valid_evals, criterion) ==
    LET scored == SelectSeq(valid_evals,
                            LAMBDA e : CriterionScore(e, criterion).status = "ok")
    IN [i \in 1..Len(scored) |-> scored[i][criterion].v.score]

SeqMin(xs) == CHOOSE x \in {xs[i] : i \in 1..Len(xs)} : \A j \in 1..Len(xs) : x <= xs[j]
SeqMax(xs) == CHOOSE x \in {xs[i] : i \in 1..Len(xs)} : \A j \in 1..Len(xs) : x >= xs[j]

\* sum(scores) / len(scores) of integer scores
IntMean(xs) == Mean([i \in 1..Len(xs) |-> Rat(xs[i], 1)])

\* [e for e in evaluations if "error" not in e]
ValidEvals(evals) == SelectSeq(evals, LAMBDA e : "error" \notin DOMAIN e)

\* e.get("pass", False)
GetPass(e) == DictGet(e, "pass", FALSE)

\* eval.get("category", "unknown")
GetCategory(e) == DictGet(e, "category", "unknown")

\* [e["overall_score"] for e in evals if "overall_score" in e]
OverallScores(evals) ==
    FieldOf(SelectSeq(evals, LAMBDA e : "overall_score" \in DOMAIN e), "overall_score")

\* the entry of category_stats for cat after the loop over valid_evals
JudgeCategoryStats(valid_evals, cat) ==
    LET of_cat == SelectSeq(valid_evals, LAMBDA e : GetCategory(e) = cat)
    IN [count |-> Len(of_cat),
        passed |-> Len(SelectSeq(of_cat, GetPass)),
        avg_score |-> Mean(OverallScores(of_cat))]

\* the evaluation of "score" in e[criterion] raises on a criterion that is a number
SummaryRaises(evals) ==
    \E i \in 1..Len(ValidEvals(evals)), c \in CriteriaNames :
        CriterionScore(ValidEvals(evals)[i], c).status = "TypeError"

\* LLMJudge._calculate_summary, where it returns
judge_calculate_summary(evals) ==
    IF evals = <<>> THEN <<>>
    ELSE
    LET valid_evals == ValidEvals(evals)
    IN  IF valid_evals = <<>> THEN [error |-> "All evaluations failed"]
        ELSE
        LET with_scores == {c \in CriteriaNames : ScoresOf(valid_evals, c) # <<>>}
            cats == {GetCategory(valid_evals[i]) : i \in 1..Len(valid_evals)}
        IN [criteria_scores |->
                [c \in with_scores |->
                    [average |-> IntMean(ScoresOf(valid_evals, c)),
                     min |-> SeqMin(ScoresOf(valid_evals, c)),
                     max |-> SeqMax(ScoresOf(valid_evals, c))]],
            overall_average |-> Mean(OverallScores(valid_evals)),
            pass_rate |-> Rat(Len(SelectSeq(valid_evals, GetPass)), Len(valid_evals)),
            total_evaluated |-> Len(valid_evals),
            total_failed |-> Len(evals) - Len(valid_evals),
            category_breakdown |->
                [cat \in cats |-> JudgeCategoryStats(valid_evals, cat)]]

\* Test questions of a judged batch and the text the agent answered with
JudgeQuestions ==
    {[id |-> "q1", question |-> "What is the S&P 500 target?",
      ground_truth |-> "6,600", category |-> "factual_recall"],
     [id |-> "q2", question |-> "Should I buy gold?",
      ground_truth |-> "No advice", category |-> "edge_cases"]}

JudgedResponse == "The target is 6,600"

\* evaluate_test_set is handed one response per question, or one too few
InitJudge ==
    /\ test_q = NoQuestion
    /\ response = ""
    /\ agent_failed = FALSE
    /\ now = 0
    /\ results = NoResults
    /\ prev_results = NoResults
    /\ runs = 0
    /\ call = NoCall
    /\ evaluations = <<>>
    /\ summary = NoSummary
    /\ pc = "judge"
    /\ questions \in SeqsUpTo(JudgeQuestions, MaxJudgeBatch)
    /\ messages = <<>>
    /\ \E n \in {Len(questions), Len(questions) - 1} \cap Nat :
        agent_responses = [i \in 1..n |-> JudgedResponse]
    /\ invocations = <<>>
    /\ judge_prompts = <<>>
    /\ judge_replies = <<>>
    /\ llm_results = NoResultSet
    /\ evals_results = NoResultSet
    /\ CliIdle

unused == <<test_q, response, agent_failed, results, prev_results, runs, call>>

\* raise ValueError("Number of questions must match number of responses")
JudgeRejects ==
    /\ pc = "judge"
    /\ Len(questions) # Len(agent_responses)
    /\ pc' = "raised"
    /\ UNCHANGED <<unused, now, evaluations, summary, pipeline>>

\* one pass of evaluate_test_set's loop: evaluate_response, then question_id
JudgeEvaluates ==
    /\ pc = "judge"
    /\ Len(questions) = Len(agent_responses)
    /\ Len(evaluations) < Len(questions)
    /\ LET i == Len(evaluations) + 1
       IN \E reply \in JudgeReplies, t \in {now, now + 1} :
            /\ judge_prompts' =
                   Append(judge_prompts,
                          [question |-> questions[i].question,
                           agent_response |-> agent_responses[i]])
            /\ judge_replies' = Append(judge_replies, reply)
            /\ now' = t
            /\ evaluations' =
                   Append(evaluations,
                          [question_id |-> questions[i].id]
                          @@ judge_evaluate_response(
                                 reply, questions[i].question,
                                 DictGet(questions[i], "category", "general"), t))
    /\ UNCHANGED <<unused, summary, pc, questions, messages, agent_responses,
                   invocations, llm_results, evals_results>>
    /\ UNCHANGED cli

\* results["summary"] = self._calculate_summary(results["evaluations"])
JudgeSummarises ==
    /\ pc = "judge"
    /\ Len(questions) = Len(agent_responses)
    /\ Len(evaluations) = Len(questions)
    /\ IF SummaryRaises(evaluations)
       THEN /\ pc' = "raised"
            /\ UNCHANGED <<summary, llm_results>>
       ELSE /\ pc' = "judged"
            /\ summary' = judge_calculate_summary(evaluations)
            /\ llm_results' = [evaluator |-> "llm_judge",
                               total_questions |-> Len(questions),
                               evaluations |-> evaluations,
                               summary |-> summary']
    /\ UNCHANGED <<unused, now, evaluations, questions, messages,
                   agent_responses, invocations, judge_prompts, judge_replies,
                   evals_results>>
    /\ UNCHANGED cli

NextJudge == JudgeRejects \/ JudgeEvaluates \/ JudgeSummarises

SpecJudge == InitJudge /\ [][NextJudge]_vars

---------------------------------------------------------------------------
(* Properties of the judgment evaluator *)

\* the record of a failed judgment: overall_score 0, pass false, an error field
IsErrorRecord(e) ==
    /\ "error" \in DOMAIN e
    /\ "overall_score" \in DOMAIN e /\ e.overall_score = Rat(0, 1)
    /\ "pass" \in DOMAIN e /\ e["pass"] = FALSE

\* criterion c of the object d is an object with a score
HasScore(d, c) == c \in DOMAIN d /\ d[c].t = "object" /\ "score" \in DOMAIN d[c].v

\* the service raised, or what it returned is not the structure asked for
Malformed(reply) ==
    \/ reply.kind = "raises"
    \/ reply.json # "object"
    \/ /\ reply.json = "object"
       /\ \/ \E c \in CriteriaNames : ~HasScore(reply.value, c)
          \/ "overall_score" \notin DOMAIN reply.value

\* evaluate_test_set has returned its results
Judged == pc = "judged"

\* C11: whenever the judgment service call of a test case raises or returns
\* data that is not the expected structure, the record of that test case has
\* overall_score 0, pass false and an error field, and the batch is not
\* aborted by it: it goes on and produces its summary.
C11_JudgeFailureRecorded ==
    /\ \A i \in 1..Len(evaluations) :
           Malformed(judge_replies[i]) => IsErrorRecord(evaluations[i])
    /\ pc = "raised" => Len(questions) # Len(agent_responses)

\* the number of records of evals that carry an error field
FailedCount(evals) == Len(evals) - Len(ValidEvals(evals))

\* x is the sum of xs divided by n
IsSumOver(x, xs, n) == n > 0 /\ x = RMul(RSum(xs), Rat(1, n))

\* C12: in the judgment summary of a batch, records with an error field are
\* left out of overall_average, pass_rate, the per-criterion statistics and
\* the category breakdown, the denominators are the number of valid records,
\* total_failed is the number of failed records and total_evaluated the
\* number of valid ones.
C12_FailedExcluded ==
    (Judged /\ evaluations # <<>>) =>
        LET valid == ValidEvals(evaluations)
        IN  /\ "total_failed" \in DOMAIN summary
            /\ summary.total_failed = FailedCount(evaluations)
            /\ summary.total_evaluated = Len(valid)
            /\ IsSumOver(summary.overall_average, OverallScores(valid), Len(valid))
            /\ Len(OverallScores(valid)) = Len(valid)
            /\ summary.pass_rate = Rat(Len(SelectSeq(valid, GetPass)), Len(valid))
            /\ \A c \in DOMAIN summary.criteria_scores :
                   /\ summary.criteria_scores[c].average = IntMean(ScoresOf(valid, c))
                   /\ summary.criteria_scores[c].min = SeqMin(ScoresOf(valid, c))
                   /\ summary.criteria_scores[c].max = SeqMax(ScoresOf(valid, c))
            /\ \A cat \in DOMAIN summary.category_breakdown :
                   summary.category_breakdown[cat].count =
                       Len(SelectSeq(valid, LAMBDA e : GetCategory(e) = cat))

\* C13: every valid judgment record has five criterion scores in 1..5, an
\* overall_score equal to their arithmetic mean and a pass flag equal to
\* overall_score >= 3.5, whatever the judgment service returned.
C13_ValidRecordWellFormed ==
    \A i \in 1..Len(evaluations) :
        LET e == evaluations[i]
        IN  "error" \notin DOMAIN e =>
                /\ \A c \in CriteriaNames : HasScore(e, c) /\ e[c].v.score \in 1..5
                /\ "overall_score" \in DOMAIN e
                /\ e.overall_score =
                       IntMean([k \in 1..Len(evaluation_criteria) |->
                                   e[evaluation_criteria[k]].v.score])
                /\ "pass" \in DOMAIN e
                /\ e["pass"] = RGeq(e.overall_score, JudgePassThreshold)

\* C14: the summary of a non-empty batch contains total_evaluated and
\* total_failed, also when every judgment call failed, and the two add up to
\* the number of records of the batch.
C14_SummaryCounts ==
    (Judged /\ evaluations # <<>>) =>
        /\ "total_evaluated" \in DOMAIN summary
        /\ "total_failed" \in DOMAIN summary
        /\ summary.total_evaluated + summary.total_failed = Len(evaluations)

---------------------------------------------------------------------------
(* The agent's conversation history (src/src/agent/research_agent.py), the  *)
(* test runner (src/src/eval/test_runner.py) and run_both_evaluators       *)
(* (src/src/eval/run_evaluation.py)                                        *)

MaxQuestions == 2
MaxToolRounds == 1

\* {"role": "system", "content": self.system_prompt}
SystemMessage == [role |-> "system", content |-> "system prompt"]

\* a history that is left as it is
clear_history_keep_all(msgs, keep_system_prompt) == msgs

\* ResearchAgent.clear_history
clear_history(msgs, keep_system_prompt) ==
    IF keep_system_prompt THEN <<SystemMessage>> ELSE <<>>

\* the messages of n completed tool rounds: the assistant's message with
\* tool calls, then the tool's message
RECURSIVE ToolRounds(_)
ToolRounds(n) ==
    IF n = 0 THEN <<>>
    ELSE ToolRounds(n - 1)
         \o <<[role |-> "assistant", content |-> "tool_calls"],
              [role |-> "tool", content |-> "search_investment_research"]>>

\* the text the completion service ends with after n tool rounds
FinalContent(n) ==
    IF n % 2 = 0 THEN "The target is 6,600"
    ELSE "According to UBS House View March 2025 (Page 17)"

\* What the completion service and the search tool do during one chat: n tool
\* rounds and a final text; the first completion raises; or the tool raises
\* in the last round
AgentRuns ==
    {[rounds |-> n, failure |-> "none"] : n \in 0..MaxToolRounds}
    \cup {[rounds |-> 0, failure |-> "completion", error |-> "timeout"]}
    \cup {[rounds |-> n, failure |-> "tool", error |-> "index not found"] :
            n \in {MaxToolRounds} \ {0}}

\* self.messages when ResearchAgent.chat returns
chat_messages(msgs, user_message, run) ==
    LET asked == Append(msgs, [role |-> "user", content |-> user_message])
    IN  IF run.failure = "none"
        THEN asked \o ToolRounds(run.rounds)
                   \o <<[role |-> "assistant", content |-> FinalContent(run.rounds)]>>
        ELSE IF run.failure = "completion"
        THEN asked \o ToolRounds(run.rounds)
        ELSE asked \o ToolRounds(run.rounds - 1)
                   \o <<[role |-> "assistant", content |-> "tool_calls"]>>

\* what ResearchAgent.chat does for its caller: it returns a text, also
\* when something raised inside it
chat(user_message, run) ==
    IF run.failure = "none"
    THEN [raised |-> FALSE, value |-> FinalContent(run.rounds)]
    ELSE [raised |-> FALSE, value |-> "Error processing message: " \o run.error]

\* the questions of the test file, in the file's order
TestFile ==
    <<[id |-> "q1", question |-> "What is the S&P 500 target?",
       ground_truth |-> "6,600", category |-> "factual_recall",
       evaluation_criteria |-> [must_include |-> <<"target|6,600">>],
       source_documents |-> <<"UBS_House_View_March_2025.pdf">>],
      [id |-> "q2", question |-> "Should I buy gold?",
       ground_truth |-> "No advice", category |-> "edge_cases"],
      [id |-> "q3", question |-> "Compare March and June",
       ground_truth |-> "6,600", category |-> "comparative",
       evaluation_criteria |-> [should_cite |-> FALSE]]>>

PipelineQuestions == {TestFile[k] : k \in 1..Len(TestFile)}

\* the test set of a batch: some questions of the test file, in its order
TestSets ==
    {qs \in SeqsUpTo(PipelineQuestions, MaxQuestions) :
        \A i, j \in 1..Len(qs) :
            i < j => \E k, l \in 1..Len(TestFile) :
                        k < l /\ TestFile[k] = qs[i] /\ TestFile[l] = qs[j]}

\* response_data of the try branch with the first question's id in every transcript
response_data_first_id(tq, text, elapsed, clock) ==
    [question_id |-> "q1", question |-> tq.question, category |-> tq.category,
     agent_response |-> text, ground_truth |-> tq.ground_truth,
     source_documents |-> DictGet(tq, "source_documents", <<>>),
     source_pages |-> DictGet(tq, "source_pages", <<>>),
     response_time_seconds |-> elapsed, timestamp |-> clock]

\* response_data of the try branch
response_data(tq, text, elapsed, clock) ==
    [question_id |-> tq.id, question |-> tq.question, category |-> tq.category,
     agent_response |-> text, ground_truth |-> tq.ground_truth,
     source_documents |-> DictGet(tq, "source_documents", <<>>),
     source_pages |-> DictGet(tq, "source_pages", <<>>),
     response_time_seconds |-> elapsed, timestamp |-> clock]

\* response_data of the except branch
error_data(tq, e, clock) ==
    [question_id |-> tq.id, question |-> tq.question, category |-> tq.category,
     agent_response |-> "", error |-> e, ground_truth |-> tq.ground_truth,
     source_documents |-> DictGet(tq, "source_documents", <<>>),
     timestamp |-> clock]

\* the judgment service as the pipeline meets it: a judgement, or a failed call
PipelineJudgeReplies ==
    {[kind |-> "content", json |-> "object",
      value |-> AllCriteria(4) @@ [overall_score |-> Rat(4, 1), pass |-> TRUE]],
     [kind |-> "raises", error |-> "rate limit"]}

\* str.replace(old, new) from position i on: every occurrence, left to right
RECURSIVE ReplaceFrom(_, _, _, _)
ReplaceFrom(s, i, old, new) ==
    IF i > Len(s) THEN ""
    ELSE IF MatchAt(s, i, old) THEN new \o ReplaceFrom(s, i + Len(old), old, new)
    ELSE SubSeq(s, i, i) \o ReplaceFrom(s, i + 1, old, new)

\* args.output.replace(".json", suffix)
OutputFor(output, suffix) == ReplaceFrom(output, 1, ".json", suffix)

\* main's output paths: llm_output and evals_output when both evaluators
\* run and otherwise output_path; --output is "None" when it is not given
OutputPaths(a) ==
    IF a.output # "None" /\ a.output # ""
    THEN IF a.evaluator = "both"
         THEN [llm_output |-> OutputFor(a.output, "_llm_judge.json"),
               evals_output |-> OutputFor(a.output, "_openai_evals.json")]
         ELSE [output_path |-> a.output]
    ELSE [llm_output |-> "data/eval_results/llm_judge_results.json",
          evals_output |-> "data/eval_results/openai_evals_results.json",
          output_path |-> IF a.evaluator = "llm-judge"
                          THEN "data/eval_results/llm_judge_results.json"
                          ELSE "data/eval_results/openai_evals_results.json"]

\* the path run_llm_judge is called with, and the path run_openai_evals is
LlmJudgeOutput(a) ==
    IF a.evaluator = "both" THEN OutputPaths(a).llm_output
    ELSE OutputPaths(a).output_path

OpenAIEvalsOutput(a) ==
    IF a.evaluator = "both" THEN OutputPaths(a).evals_output
    ELSE OutputPaths(a).output_path

\* parser.parse_args(): the evaluator after --compare, --output, --quiet and
\* --test-set
DefaultArgs ==
    [evaluator |-> "both", output |-> "None", quiet |-> FALSE,
     test_set |-> "data/test_questions.json"]

Outputs == {"None", "results/custom.json", "results/custom"}

ArgSets ==
    {[DefaultArgs EXCEPT !.evaluator = e, !.output = o, !.quiet = q] :
        e \in {"both", "llm-judge", "openai-evals"}, o \in Outputs, q \in BOOLEAN}

\* the test set file with the questions qs
TestSetFile(qs) == [questions |-> qs, total_questions |-> Len(qs)]

\* the disk before a run: the test set file is there, or it is not
DisksWith(sets) ==
    {(DefaultArgs.test_set :> TestSetFile(qs)) : qs \in sets} \cup {NoFiles}

\* json.dump(results, f) of the batch with its last record left out
save_results_truncated(disk, result_set, output_path) ==
    (output_path :> [result_set EXCEPT !.evaluations = SubSeq(@, 1, Len(@) - 1)]) @@ disk

\* save_results: json.dump(results, f) into output_path
save_results(disk, result_set, output_path) == (output_path :> result_set) @@ disk

\* main of run_evaluation.py is started with the default command line
InitBoth ==
    /\ test_q = NoQuestion
    /\ response = ""
    /\ agent_failed = FALSE
    /\ now = 0
    /\ results = NoResults
    /\ prev_results = NoResults
    /\ runs = 0
    /\ call = NoCall
    /\ evaluations = <<>>
    /\ summary = NoSummary
    /\ pc = "main"
    /\ questions = <<>>
    /\ messages = <<>>
    /\ agent_responses = <<>>
    /\ invocations = <<>>
    /\ judge_prompts = <<>>
    /\ judge_replies = <<>>
    /\ llm_results = NoResultSet
    /\ evals_results = NoResultSet
    /\ args = DefaultArgs
    /\ files \in DisksWith(TestSets)
    /\ exit_code = -1

\* main's try block: the first runner is constructed, which loads the test
\* set file (FileNotFoundError when it is not there); run_llm_judge goes on
\* with run_full_evaluation and a new agent, run_openai_evals with
\* run_evaluation
MainStarts ==
    /\ pc = "main"
    /\ IF args.test_set \in DOMAIN files
       THEN /\ questions' = files[args.test_set].questions
            /\ messages' = <<SystemMessage>>
            /\ pc' = IF args.evaluator = "openai-evals"
                     THEN "run_evaluation" ELSE "clear_history"
       ELSE /\ pc' = "raised"
            /\ UNCHANGED <<questions, messages>>
    /\ UNCHANGED <<unused, now, evaluations, summary, agent_responses, invocations,
                   judge_prompts, judge_replies, llm_results, evals_results, cli>>


\* run_agent_on_tests: self.agent.clear_history(keep_system_prompt=True)
RunnerClears ==
    /\ pc = "clear_history"
    /\ Len(agent_responses) < Len(questions)
    /\ messages' = clear_history(messages, TRUE)
    /\ pc' = "chat"
    /\ UNCHANGED <<unused, now, evaluations, summary, questions, agent_responses,
                   invocations, judge_prompts, judge_replies, llm_results,
                   evals_results>>
    /\ UNCHANGED cli

\* run_agent_on_tests: response = self.agent.chat(...), response_data, append
RunnerChats ==
    /\ pc = "chat"
    /\ LET tq == questions[Len(agent_responses) + 1]
       IN \E run \in AgentRuns :
            LET returned == chat(tq.question, run)
            IN  /\ messages' = chat_messages(messages, tq.question, run)
                /\ invocations' =
                       Append(invocations,
                              [runner |-> "test_runner", question_id |-> tq.id,
                               run |-> run])
                /\ agent_responses' =
                       Append(agent_responses,
                              IF returned.raised
                              THEN error_data(tq, returned.value, now + 1)
                              ELSE response_data(tq, returned.value, 1, now + 1))
    /\ now' = now + 1
    /\ pc' = "clear_history"
    /\ UNCHANGED <<unused, evaluations, summary, questions, judge_prompts,
                   judge_replies, llm_results, evals_results>>
    /\ UNCHANGED cli

\* run_agent_on_tests returns; evaluate_with_llm_judge raises ValueError when
\* there are no agent responses, else it calls judge.evaluate_test_set
EvaluateWithLLMJudge ==
    /\ pc = "clear_history"
    /\ Len(agent_responses) = Len(questions)
    /\ pc' = IF agent_responses = <<>> THEN "raised" ELSE "llm_judge"
    /\ UNCHANGED <<unused, now, evaluations, summary, pipeline>>

\* one pass of evaluate_test_set's loop over the transcripts' texts
JudgeEvaluatesTranscript ==
    /\ pc = "llm_judge"
    /\ Len(evaluations) < Len(questions)
    /\ LET i == Len(evaluations) + 1
       IN \E reply \in PipelineJudgeReplies :
            /\ judge_prompts' =
                   Append(judge_prompts,
                          [question |-> questions[i].question,
                           agent_response |-> agent_responses[i].agent_response])
            /\ judge_replies' = Append(judge_replies, reply)
            /\ evaluations' =
                   Append(evaluations,
                          [question_id |-> questions[i].id]
                          @@ judge_evaluate_response(
                                 reply, questions[i].question,
                                 DictGet(questions[i], "category", "general"),
                                 now + 1))
    /\ now' = now + 1
    /\ UNCHANGED <<unused, summary, pc, questions, messages, agent_responses,
                   invocations, llm_results, evals_results>>
    /\ UNCHANGED cli

\* eval_result["response_time"], eval_result["agent_error"]
MergeAgentMetadata(evals) ==
    [i \in 1..Len(evals) |->
        (IF "error" \in DOMAIN agent_responses[i]
         THEN [agent_error |-> agent_responses[i].error] ELSE <<>>)
        @@ [response_time |->
                DictGet(agent_responses[i], "response_time_seconds", "None")]
        @@ evals[i]]

\* the end of evaluate_test_set and the rest of evaluate_with_llm_judge: the
\* summary, the agent's metadata, and with verbose the printed summary,
\* whose keys a summary of failed records only does not have
JudgeReturns ==
    /\ pc = "llm_judge"
    /\ Len(evaluations) = Len(questions)
    /\ summary' = judge_calculate_summary(evaluations)
    /\ llm_results' = [evaluator |-> "llm_judge",
                       total_questions |-> Len(questions),
                       evaluations |-> MergeAgentMetadata(evaluations),
                       summary |-> summary']
    /\ pc' = IF ~args.quiet /\ "overall_average" \notin DOMAIN summary'
             THEN "raised" ELSE "save_llm_judge"
    /\ UNCHANGED <<unused, now, evaluations, questions, messages, agent_responses,
                   invocations, judge_prompts, judge_replies, evals_results>>
    /\ UNCHANGED cli

\* run_full_evaluation: self.save_results(results, output_path), and the
\* return to main or to run_both_evaluators
SaveJudgeResults ==
    /\ pc = "save_llm_judge"
    /\ files' = save_results(files, llm_results, LlmJudgeOutput(args))
    /\ pc' = IF args.evaluator = "both" THEN "run_evaluation" ELSE "done"
    /\ UNCHANGED <<unused, now, evaluations, summary, questions, messages,
                   agent_responses, invocations, judge_prompts, judge_replies,
                   llm_results, evals_results, args, exit_code>>

\* run_openai_evals: OpenAIEvalsRunner.run_evaluation with an agent of its
\* own, self.agent = ResearchAgent(), and an empty result set
EvalsStarts ==
    /\ pc = "run_evaluation"
    /\ messages' = <<SystemMessage>>
    /\ evals_results' = [evaluator |-> "openai_evals",
                         total_questions |-> Len(questions),
                         evaluations |-> <<>>, summary |-> <<>>]
    /\ pc' = "evals_clear_history"
    /\ UNCHANGED <<unused, now, evaluations, summary, questions, agent_responses,
                   invocations, judge_prompts, judge_replies, llm_results>>
    /\ UNCHANGED cli

\* run_evaluation: self.agent.clear_history(keep_system_prompt=True)
EvalsClears ==
    /\ pc = "evals_clear_history"
    /\ Len(evals_results.evaluations) < Len(questions)
    /\ messages' = clear_history(messages, TRUE)
    /\ pc' = "evals_chat"
    /\ UNCHANGED <<unused, now, evaluations, summary, questions, agent_responses,
                   invocations, judge_prompts, judge_replies, llm_results,
                   evals_results>>
    /\ UNCHANGED cli

\* run_evaluation's response: chat's text, or "ERROR: ..." when chat raised
graded_text(returned) ==
    IF returned.raised THEN "ERROR: " \o returned.value ELSE returned.value

\* evaluate_response on the response of each test case to each agent run,
\* read at clock 0; computed once
EvalResults ==
    [tq \in PipelineQuestions, run \in AgentRuns |->
        evaluate_response(
            tq.id, tq.question, graded_text(chat(tq.question, run)), tq.ground_truth,
            DictGet(tq, "evaluation_criteria", <<>>),
            DictGet(tq, "source_documents", <<>>),
            tq.category, 0)]

\* run_evaluation: the agent's response, evaluate_response on it, append
EvalsChats ==
    /\ pc = "evals_chat"
    /\ LET tq == questions[Len(evals_results.evaluations) + 1]
       IN \E run \in AgentRuns :
            LET returned == chat(tq.question, run)
                eval_result == [EvalResults[tq, run] EXCEPT !.timestamp = now + 1]
            IN  /\ messages' = chat_messages(messages, tq.question, run)
                /\ invocations' =
                       Append(invocations,
                              [runner |-> "openai_evals", question_id |-> tq.id,
                               run |-> run])
                /\ evals_results' =
                       [evals_results EXCEPT !.evaluations =
                           Append(@, [agent_response |-> graded_text(returned),
                                      response_time_seconds |->
                                          IF returned.raised THEN 0 ELSE 1]
                                     @@ eval_result)]
    /\ now' = now + 1
    /\ pc' = "evals_clear_history"
    /\ UNCHANGED <<unused, evaluations, summary, questions, agent_responses,
                   judge_prompts, judge_replies, llm_results>>
    /\ UNCHANGED cli

\* results["summary"] = self._calculate_summary(results["evaluations"]), and
\* with verbose the printed summary, whose keys the summary of an empty batch
\* does not have
EvalsReturns ==
    /\ pc = "evals_clear_history"
    /\ Len(evals_results.evaluations) = Len(questions)
    /\ evals_results' =
           [evals_results EXCEPT !.summary = _calculate_summary(evals_results.evaluations)]
    /\ pc' = IF ~args.quiet /\ "overall_average" \notin DOMAIN evals_results'.summary
             THEN "raised" ELSE "save_openai_evals"
    /\ UNCHANGED <<unused, now, evaluations, summary, questions, messages,
                   agent_responses, invocations, judge_prompts, judge_replies,
                   llm_results>>
    /\ UNCHANGED cli

\* run_openai_evals: if output_path: runner.save_results(results, output_path)
SaveEvalsResults ==
    /\ pc = "save_openai_evals"
    /\ files' = IF OpenAIEvalsOutput(args) # ""
                THEN save_results(files, evals_results, OpenAIEvalsOutput(args))
                ELSE files
    /\ pc' = "done"
    /\ UNCHANGED <<unused, now, evaluations, summary, questions, messages,
                   agent_responses, invocations, judge_prompts, judge_replies,
                   llm_results, evals_results, args, exit_code>>

\* main's try block ends and main returns: the exit status is 0
MainReturns ==
    /\ pc = "done"
    /\ exit_code' = 0
    /\ pc' = "exited"
    /\ UNCHANGED <<unused, now, evaluations, summary, questions, messages,
                   agent_responses, invocations, judge_prompts, judge_replies,
                   llm_results, evals_results, args, files>>

\* main's except Exception: sys.exit(1)
MainCatches ==
    /\ pc = "raised"
    /\ args # NoArgs
    /\ exit_code' = 1
    /\ pc' = "exited"
    /\ UNCHANGED <<unused, now, evaluations, summary, questions, messages,
                   agent_responses, invocations, judge_prompts, judge_replies,
                   llm_results, evals_results, args, files>>

NextBoth ==
    \/ MainStarts
    \/ RunnerClears \/ RunnerChats \/ EvaluateWithLLMJudge
    \/ JudgeEvaluatesTranscript \/ JudgeReturns \/ SaveJudgeResults
    \/ EvalsStarts \/ EvalsClears \/ EvalsChats \/ EvalsReturns
    \/ SaveEvalsResults
    \/ MainReturns \/ MainCatches

SpecBoth == InitBoth /\ [][NextBoth]_vars

\* main of run_evaluation.py with any command line, on the test sets that
\* are shorter than the longest
MainTestSets == {qs \in TestSets : Len(qs) < MaxQuestions}

InitMain ==
    /\ test_q = NoQuestion
    /\ response = ""
    /\ agent_failed = FALSE
    /\ now = 0
    /\ results = NoResults
    /\ prev_results = NoResults
    /\ runs = 0
    /\ call = NoCall
    /\ evaluations = <<>>
    /\ summary = NoSummary
    /\ pc = "main"
    /\ questions = <<>>
    /\ messages = <<>>
    /\ agent_responses = <<>>
    /\ invocations = <<>>
    /\ judge_prompts = <<>>
    /\ judge_replies = <<>>
    /\ llm_results = NoResultSet
    /\ evals_results = NoResultSet
    /\ args \in ArgSets
    /\ files \in DisksWith(MainTestSets)
    /\ exit_code = -1

SpecMain == InitMain /\ [][NextBoth]_vars

---------------------------------------------------------------------------
(* Properties of the test runner and of run_both_evaluators *)

\* the calls of agent.chat made by the runner named r, in order
CallsOf(r) == SelectSeq(invocations, LAMBDA c : c.runner = r)

\* run_agent_on_tests has returned
TranscriptsReturned == pc \notin {"main", "clear_history", "chat"}

\* C15: run_agent_on_tests returns one transcript per question of the test
\* set, in the test set's order, after one call of the agent per question;
\* a question whose agent run failed does not keep the later ones from
\* being run.
C15_OneTranscriptPerQuestion ==
    /\ Len(agent_responses) <= Len(questions)
    /\ \A i \in 1..Len(agent_responses) :
           agent_responses[i].question_id = questions[i].id
    /\ Len(CallsOf("test_runner")) = Len(agent_responses)
    /\ \A i \in 1..Len(agent_responses) :
           CallsOf("test_runner")[i].question_id = questions[i].id
    /\ TranscriptsReturned => Len(agent_responses) = Len(questions)

C15_Witness ==
    /\ TranscriptsReturned
    /\ Len(agent_responses) = 2
    /\ agent_responses[1].question_id = "q2"
    /\ agent_responses[2].question_id = "q3"
    /\ CallsOf("test_runner")[1].run.failure = "completion"
    /\ CallsOf("test_runner")[2].run.failure = "none"

\* C16: in both runners, when the agent is about to be called for a test
\* case its history holds the system prompt and nothing else, also after a
\* test case whose agent run failed part-way.
C16_FreshHistory ==
    pc \in {"chat", "evals_chat"} => messages = <<SystemMessage>>

C16_Witness ==
    /\ pc = "evals_chat"
    /\ Len(CallsOf("openai_evals")) = 1
    /\ CallsOf("openai_evals")[1].run.failure = "tool"
    /\ CallsOf("test_runner")[1].run.failure = "tool"

\* C17: the transcript of a test case whose agent run failed to obtain a
\* response (the completion or the tool call raised) has an error field and
\* an empty agent_response; the transcript of a run that succeeded has the
\* response text and no error field.
C17_ErrorOrResponse ==
    \A i \in 1..Len(agent_responses) :
        LET run == CallsOf("test_runner")[i].run
            transcript == agent_responses[i]
        IN  IF run.failure # "none"
            THEN "error" \in DOMAIN transcript /\ transcript.agent_response = ""
            ELSE /\ "error" \notin DOMAIN transcript
                 /\ transcript.agent_response = FinalContent(run.rounds)

\* C18: when run_both_evaluators has run both evaluators, for every test
\* case the text the deterministic evaluator graded is the text that was
\* sent to the judgment service, and the agent was called once for it.
C18_SameTranscript ==
    pc = "done" =>
        \A i \in 1..Len(questions) :
            /\ evals_results.evaluations[i].agent_response
                   = judge_prompts[i].agent_response
            /\ Cardinality({k \in 1..Len(invocations) :
                               invocations[k].question_id = questions[i].id}) = 1

---------------------------------------------------------------------------
(* The comparator (src/src/eval/compare_evaluators.py) *)

\* x - y and abs(x)
RSub(x, y) == Rat(x[1] * y[2] - y[1] * x[2], x[2] * y[2])
RAbs(x) == IF x[1] < 0 THEN <<0 - x[1], x[2]>> ELSE x

\* x > y
RGt(x, y) == x[1] * y[2] > y[1] * x[2]

\* EvaluatorComparison.compare_overall_scores
compare_overall_scores(llm, evals) ==
    LET llm_avg == llm.summary.overall_average
        evals_avg == evals.summary.overall_average
    IN [llm_judge_score |-> llm_avg,
        openai_evals_score |-> evals_avg,
        difference |-> RAbs(RSub(llm_avg, evals_avg)),
        winner |-> IF RGt(llm_avg, evals_avg) THEN "llm-judge" ELSE "openai-evals"]

\* llm_score / 5.0 if llm_score else 0
Normalized(llm_score) ==
    IF llm_score # Rat(0, 1) THEN RMul(llm_score, Rat(1, 5)) ELSE Rat(0, 1)

\* a comparison that gives a tie to the judge
BetterEvaluatorTieToJudge(llm_normalized, evals_score) ==
    IF RGeq(llm_normalized, evals_score) THEN "llm-judge" ELSE "openai-evals"

\* "llm-judge" if llm_normalized > evals_score else "openai-evals"
BetterEvaluator(llm_normalized, evals_score) ==
    IF RGt(llm_normalized, evals_score) THEN "llm-judge" ELSE "openai-evals"

\* categories.get(category, {}).get("avg_score", 0)
AvgScore(categories, category) ==
    DictGet(DictGet(categories, category, <<>>), "avg_score", Rat(0, 1))

\* EvaluatorComparison.compare_by_category
compare_by_category(llm, evals) ==
    LET llm_categories == llm.summary.category_breakdown
        evals_categories == evals.summary.category_breakdown
    IN [category \in DOMAIN llm_categories \cup DOMAIN evals_categories |->
           LET llm_normalized == Normalized(AvgScore(llm_categories, category))
               evals_score == AvgScore(evals_categories, category)
           IN [llm_judge |-> llm_normalized,
               openai_evals |-> evals_score,
               better_evaluator |-> BetterEvaluator(llm_normalized, evals_score)]]

\* the functions from a subset of the set S to the set T
PartialFunctions(S, T) == UNION {[D -> T] : D \in SUBSET S}

CompareCategories == {"factual_recall", "edge_cases"}

\* category_breakdown entries of the two evaluators, by their avg_score
JudgeCategoryEntries ==
    {[count |-> 1, passed |-> 1, avg_score |-> x] :
        x \in {Rat(0, 1), Rat(7, 2), Rat(4, 1)}}

EvalsCategoryEntries ==
    {[count |-> 1, passed |-> 1, avg_score |-> x] :
        x \in {Rat(0, 1), Rat(7, 10), Rat(4, 5)}}

\* The two result sets read from the result files: the judge's summary of a
\* batch with a valid record or of a batch of failed records only, and the
\* deterministic evaluator's summary
JudgeResultSets ==
    {[summary |-> [overall_average |-> x, category_breakdown |-> cb]] :
        x \in {Rat(1, 1), Rat(7, 2), Rat(4, 1), Rat(5, 1)},
        cb \in PartialFunctions(CompareCategories, JudgeCategoryEntries)}
    \cup {[summary |-> [error |-> "All evaluations failed"]]}

EvalsResultSets ==
    {[summary |-> [overall_average |-> x, category_breakdown |-> cb]] :
        x \in {Rat(0, 1), Rat(7, 10), Rat(4, 5), Rat(1, 1)},
        cb \in PartialFunctions(CompareCategories, EvalsCategoryEntries)}

\* the largest batch in a result file the comparator reads
MaxFileRecords == 2

\* sum((x - mean) ** 2 for x in scores) / (len(scores) - 1)
calculate_variance_sample(scores) ==
    IF Len(scores) < 2 THEN Rat(0, 1)
    ELSE LET mean == Mean(scores)
             squares == [i \in 1..Len(scores) |->
                            RMul(RSub(scores[i], mean), RSub(scores[i], mean))]
         IN RMul(RSum(squares), Rat(1, Len(scores) - 1))

\* calculate_variance, local to analyze_consistency
calculate_variance(scores) ==
    IF scores = <<>> THEN Rat(0, 1)
    ELSE LET mean == RMul(RSum(scores), Rat(1, Len(scores)))
             squares == [i \in 1..Len(scores) |->
                            RMul(RSub(scores[i], mean), RSub(scores[i], mean))]
         IN RMul(RSum(squares), Rat(1, Len(scores)))

\* EvaluatorComparison.analyze_consistency
analyze_consistency(llm, evals) ==
    LET llm_scores == OverallScores(llm.evaluations)
        evals_scores == OverallScores(evals.evaluations)
        llm_variance == calculate_variance(llm_scores)
        evals_variance == calculate_variance(evals_scores)
    IN [llm_judge_variance |-> llm_variance,
        openai_evals_variance |-> evals_variance,
        more_consistent |-> IF RGt(llm_variance, evals_variance)
                            THEN "openai-evals" ELSE "llm-judge"]

\* [e for e in evaluations if e.get("category") == "edge_cases"]
EdgeCases(evals) ==
    SelectSeq(evals, LAMBDA e : DictGet(e, "category", "None") = "edge_cases")

\* sum(1 for e in edge if e.get(key, False)) / len(edge) if edge else 0
EdgePassRate(edge, key) ==
    IF edge # <<>>
    THEN Rat(Len(SelectSeq(edge, LAMBDA e : DictGet(e, key, FALSE))), Len(edge))
    ELSE Rat(0, 1)

\* EvaluatorComparison.analyze_edge_cases
analyze_edge_cases(llm, evals) ==
    LET llm_pass_rate == EdgePassRate(EdgeCases(llm.evaluations), "pass")
        evals_pass_rate == EdgePassRate(EdgeCases(evals.evaluations), "passed")
    IN [llm_judge_edge_pass_rate |-> llm_pass_rate,
        openai_evals_edge_pass_rate |-> evals_pass_rate,
        better_at_edges |-> IF RGt(llm_pass_rate, evals_pass_rate)
                            THEN "llm-judge" ELSE "openai-evals"]

\* The records of a judged batch as evaluate_response returns them: of a
\* reply that scores 4 and passes, of one that scores 3 and fails, and of a
\* call that raised
JudgeFileRecords ==
    {judge_evaluate_response(reply, "q", c, 0) :
        reply \in {r \in JudgeReplies :
                      /\ r.kind = "content"
                      /\ r.json = "object"
                      /\ r.value \in {AllCriteria(4) @@ [overall_score |-> Rat(4, 1),
                                                        pass |-> TRUE],
                                      AllCriteria(3) @@ [overall_score |-> Rat(3, 1),
                                                        pass |-> FALSE]}},
        c \in CompareCategories}
    \cup {judge_evaluate_response([kind |-> "raises", error |-> "rate limit"],
                                  "q", "edge_cases", 0)}

\* the records of a deterministic batch
EvalsFileRecords ==
    {r \in SummaryRecords : r.overall_score \in {Rat(1, 2), Rat(1, 1)}}

\* The two result files as the batch runs write them: the records and the
\* summary computed from them
JudgeResultFiles ==
    {[evaluations |-> evals, summary |-> judge_calculate_summary(evals)] :
        evals \in SeqsUpTo(JudgeFileRecords, MaxFileRecords)}

EvalsResultFiles ==
    {[evaluations |-> evals, summary |-> _calculate_summary(evals)] :
        evals \in SeqsUpTo(EvalsFileRecords, MaxFileRecords)}

InitCompare ==
    /\ test_q = NoQuestion
    /\ response = ""
    /\ agent_failed = FALSE
    /\ now = 0
    /\ results = NoResults
    /\ prev_results = NoResults
    /\ runs = 0
    /\ call = NoCall
    /\ evaluations = <<>>
    /\ summary = NoSummary
    /\ pc = "compare"
    /\ questions = <<>>
    /\ messages = <<>>
    /\ agent_responses = <<>>
    /\ invocations = <<>>
    /\ judge_prompts = <<>>
    /\ judge_replies = <<>>
    /\ \/ /\ llm_results \in JudgeResultSets
          /\ evals_results \in EvalsResultSets
       \/ /\ llm_results \in JudgeResultFiles
          /\ evals_results \in EvalsResultFiles
    /\ CliIdle

\* a call of compare_overall_scores; KeyError when a summary has no
\* overall_average
CompareOverallScores ==
    /\ pc = "compare"
    /\ IF /\ "overall_average" \in DOMAIN llm_results.summary
          /\ "overall_average" \in DOMAIN evals_results.summary
       THEN /\ call' = [fn |-> "compare_overall_scores",
                        result |-> compare_overall_scores(llm_results, evals_results)]
            /\ pc' = "returned"
       ELSE /\ call' = [fn |-> "compare_overall_scores"]
            /\ pc' = "raised"
    /\ UNCHANGED <<test_q, response, agent_failed, now, results, prev_results, runs,
                   evaluations, summary, pipeline>>

\* a call of compare_by_category; KeyError when a summary has no
\* category_breakdown
CompareByCategory ==
    /\ pc = "compare"
    /\ IF /\ "category_breakdown" \in DOMAIN llm_results.summary
          /\ "category_breakdown" \in DOMAIN evals_results.summary
       THEN /\ call' = [fn |-> "compare_by_category",
                        result |-> compare_by_category(llm_results, evals_results)]
            /\ pc' = "returned"
       ELSE /\ call' = [fn |-> "compare_by_category"]
            /\ pc' = "raised"
    /\ UNCHANGED <<test_q, response, agent_failed, now, results, prev_results, runs,
                   evaluations, summary, pipeline>>

\* a call of analyze_consistency; KeyError when a result set has no
\* evaluations
AnalyzeConsistency ==
    /\ pc = "compare"
    /\ IF /\ "evaluations" \in DOMAIN llm_results
          /\ "evaluations" \in DOMAIN evals_results
       THEN /\ call' = [fn |-> "analyze_consistency",
                        result |-> analyze_consistency(llm_results, evals_results)]
            /\ pc' = "returned"
       ELSE /\ call' = [fn |-> "analyze_consistency"]
            /\ pc' = "raised"
    /\ UNCHANGED <<test_q, response, agent_failed, now, results, prev_results, runs,
                   evaluations, summary, pipeline>>

\* a call of analyze_edge_cases; KeyError when a result set has no
\* evaluations
AnalyzeEdgeCases ==
    /\ pc = "compare"
    /\ IF /\ "evaluations" \in DOMAIN llm_results
          /\ "evaluations" \in DOMAIN evals_results
       THEN /\ call' = [fn |-> "analyze_edge_cases",
                        result |-> analyze_edge_cases(llm_results, evals_results)]
            /\ pc' = "returned"
       ELSE /\ call' = [fn |-> "analyze_edge_cases"]
            /\ pc' = "raised"
    /\ UNCHANGED <<test_q, response, agent_failed, now, results, prev_results, runs,
                   evaluations, summary, pipeline>>

NextCompare ==
    \/ CompareOverallScores
    \/ CompareByCategory
    \/ AnalyzeConsistency
    \/ AnalyzeEdgeCases

SpecCompare == InitCompare /\ [][NextCompare]_vars

---------------------------------------------------------------------------
(* Properties of the comparator *)

\* the call of the comparator's function fn has returned
Compared(fn) == pc = "returned" /\ call.fn = fn

\* C19: compare_overall_scores divides the judge's 1-5 overall average by 5
\* before it computes the difference and the winner against the
\* deterministic evaluator's average, so the difference is at most 1 and a
\* judge average of 4.0 against 0.8 gives difference 0.
C19_NormalisedOverall ==
    Compared("compare_overall_scores") =>
        LET llm_normalized == RMul(llm_results.summary.overall_average, Rat(1, 5))
            evals_avg == evals_results.summary.overall_average
        IN  /\ call.result.difference = RAbs(RSub(llm_normalized, evals_avg))
            /\ RGeq(Rat(1, 1), call.result.difference)
            /\ call.result.winner = "llm-judge" <=> RGt(llm_normalized, evals_avg)

\* C20: in compare_by_category every category of either result set gets an
\* entry; better_evaluator is 'llm-judge' exactly when the judge's category
\* average divided by 5 is greater than the deterministic category average,
\* else 'openai-evals' (so on a tie); a category that one result set lacks
\* counts as 0 there.
C20_CategoryWinner ==
    Compared("compare_by_category") =>
        LET llm_categories == llm_results.summary.category_breakdown
            evals_categories == evals_results.summary.category_breakdown
        IN  /\ DOMAIN call.result = DOMAIN llm_categories \cup DOMAIN evals_categories
            /\ \A category \in DOMAIN call.result :
                LET llm_score == IF category \in DOMAIN llm_categories
                                 THEN llm_categories[category].avg_score ELSE Rat(0, 1)
                    evals_score == IF category \in DOMAIN evals_categories
                                   THEN evals_categories[category].avg_score
                                   ELSE Rat(0, 1)
                    entry == call.result[category]
                IN  /\ entry.llm_judge = RMul(llm_score, Rat(1, 5))
                    /\ entry.openai_evals = evals_score
                    /\ entry.better_evaluator \in {"llm-judge", "openai-evals"}
                    /\ entry.better_evaluator = "llm-judge"
                           <=> RGt(RMul(llm_score, Rat(1, 5)), evals_score)

C20_Witness ==
    /\ Compared("compare_by_category")
    /\ DOMAIN llm_results.summary.category_breakdown = {"factual_recall"}
    /\ DOMAIN evals_results.summary.category_breakdown = CompareCategories
    /\ llm_results.summary.category_breakdown["factual_recall"].avg_score = Rat(4, 1)
    /\ evals_results.summary.category_breakdown["factual_recall"].avg_score = Rat(4, 5)
    /\ call.result["factual_recall"].better_evaluator = "openai-evals"
    /\ call.result["edge_cases"].llm_judge = Rat(0, 1)

---------------------------------------------------------------------------
(* Properties of the comparator's analyses *)

\* the overall_score values of the records of a batch that carry one
ScoresIn(rs) ==
    LET with == SelectSeq(rs.evaluations, LAMBDA e : "overall_score" \in DOMAIN e)
    IN [i \in 1..Len(with) |-> with[i].overall_score]

\* the population variance of xs as E[x^2] - E[x]^2, and 0 of no values
PopulationVariance(xs) ==
    IF Len(xs) = 0 THEN Rat(0, 1)
    ELSE LET n == Rat(Len(xs), 1)
             sum == RSum(xs)
             squares == RSum([i \in 1..Len(xs) |-> RMul(xs[i], xs[i])])
         IN RMul(RSub(RMul(n, squares), RMul(sum, sum)), Rat(1, Len(xs) * Len(xs)))

\* C21: analyze_consistency reports for each evaluator the population
\* variance of the overall_score values of its batch's records, 0 for a batch
\* without records, and names as more_consistent the evaluator whose variance
\* is strictly lower.
C21_VarianceAndConsistency ==
    Compared("analyze_consistency") =>
        LET llm_variance == PopulationVariance(ScoresIn(llm_results))
            evals_variance == PopulationVariance(ScoresIn(evals_results))
        IN  /\ call.result.llm_judge_variance = llm_variance
            /\ call.result.openai_evals_variance = evals_variance
            /\ llm_results.evaluations = <<>> =>
                   call.result.llm_judge_variance = Rat(0, 1)
            /\ evals_results.evaluations = <<>> =>
                   call.result.openai_evals_variance = Rat(0, 1)
            /\ RGt(llm_variance, evals_variance) =>
                   call.result.more_consistent = "openai-evals"
            /\ RGt(evals_variance, llm_variance) =>
                   call.result.more_consistent = "llm-judge"

C21_Witness ==
    /\ Compared("analyze_consistency")
    /\ Len(llm_results.evaluations) = 2
    /\ Len(evals_results.evaluations) = 2
    /\ call.result.llm_judge_variance = Rat(1, 4)
    /\ call.result.openai_evals_variance = Rat(1, 16)
    /\ call.result.more_consistent = "openai-evals"

\* the judge's records of a result set that carry no error
ValidJudged(rs) == SelectSeq(rs.evaluations, LAMBDA e : "error" \notin DOMAIN e)

\* C26: the judge's records that the comparator uses are the valid records
\* the judge's summary averaged over: the variance in analyze_consistency and
\* the edge-case pass rate in analyze_edge_cases are those of the records
\* without an error field, as are the summary's count and overall average.
C26_ComparatorUsesValidRecords ==
    LET valid == ValidJudged(llm_results)
        valid_scores == [i \in 1..Len(valid) |-> valid[i].overall_score]
        valid_edge == SelectSeq(valid, LAMBDA e : e.category = "edge_cases")
    IN  /\ Compared("analyze_consistency") =>
               /\ call.result.llm_judge_variance = PopulationVariance(valid_scores)
               /\ "total_evaluated" \in DOMAIN llm_results.summary =>
                      /\ llm_results.summary.total_evaluated = Len(valid)
                      /\ llm_results.summary.overall_average = Mean(valid_scores)
        /\ Compared("analyze_edge_cases") =>
               call.result.llm_judge_edge_pass_rate =
                   IF valid_edge = <<>> THEN Rat(0, 1)
                   ELSE Rat(Cardinality({i \in 1..Len(valid_edge) : valid_edge[i].pass}),
                            Len(valid_edge))

\* C27: every winner decision of the comparator gives an exact tie to
\* 'openai-evals': compare_overall_scores on equal averages,
\* compare_by_category on equal category scores, analyze_consistency on equal
\* variances and analyze_edge_cases on equal pass rates.
C27_TiesToOpenAIEvals ==
    /\ Compared("compare_overall_scores") =>
           (call.result.llm_judge_score = call.result.openai_evals_score
                => call.result.winner = "openai-evals")
    /\ Compared("compare_by_category") =>
           \A category \in DOMAIN call.result :
               call.result[category].llm_judge = call.result[category].openai_evals
                   => call.result[category].better_evaluator = "openai-evals"
    /\ Compared("analyze_consistency") =>
           (call.result.llm_judge_variance = call.result.openai_evals_variance
                => call.result.more_consistent = "openai-evals")
    /\ Compared("analyze_edge_cases") =>
           (call.result.llm_judge_edge_pass_rate = call.result.openai_evals_edge_pass_rate
                => call.result.better_at_edges = "openai-evals")

---------------------------------------------------------------------------
(* Properties of run_evaluation.py's main *)

\* main has ended and set the exit status
Exited == pc = "exited"

\* the test set file was there: the runner's setup succeeded
SetupSucceeded == args.test_set \in DOMAIN files

\* C22: a run of run_evaluation.py exits with a status other than 0 when the
\* test set file cannot be read, and with 0 in every run whose setup
\* succeeded, however many test cases failed, the run in which every call of
\* the judge failed included.
C22_ExitStatus ==
    Exited =>
        /\ ~SetupSucceeded => exit_code # 0
        /\ SetupSucceeded => exit_code = 0

\* the result files on disk
ResultFiles == DOMAIN files \ {args.test_set}

\* main is in the judge's batch, before run_full_evaluation saves; and main
\* has not finished the deterministic batch
InJudgeBatch == pc \in {"main", "clear_history", "chat", "llm_judge", "save_llm_judge"}
InEvalsBatch == pc \in {"run_evaluation", "evals_clear_history", "evals_chat",
                        "save_openai_evals"}

\* C23: a result file is written only after every test case of the batch
\* has been processed and the summary has been computed: while a batch runs,
\* and after a batch that ended early, it has written nothing, and a written
\* file holds one record per test case and the summary of these records.
C23_FileAfterWholeBatch ==
    /\ InJudgeBatch => ResultFiles = {}
    /\ InEvalsBatch => \A p \in ResultFiles : files[p].evaluator = "llm_judge"
    /\ \A p \in ResultFiles :
        /\ Len(files[p].evaluations) = Len(questions)
        /\ \A i \in 1..Len(questions) :
               files[p].evaluations[i].question_id = questions[i].id
        /\ files[p].evaluator = "llm_judge" =>
               /\ files[p] = llm_results
               /\ files[p].summary = judge_calculate_summary(evaluations)
        /\ files[p].evaluator = "openai_evals" =>
               /\ files[p] = evals_results
               /\ files[p].summary = _calculate_summary(files[p].evaluations)
    /\ (Exited /\ exit_code # 0) =>
           /\ \A p \in ResultFiles : files[p].evaluator = "llm_judge"
           /\ evals_results = NoResultSet => ResultFiles = {}

C23_Witness ==
    /\ Exited
    /\ Len(questions) = MaxQuestions
    /\ Cardinality(ResultFiles) = 2
    /\ \E p \in ResultFiles :
        /\ files[p].evaluator = "llm_judge"
        /\ Len(files[p].evaluations) = MaxQuestions
        /\ "error" \in DOMAIN files[p].evaluations[1]
    /\ \E p \in ResultFiles :
        /\ files[p].evaluator = "openai_evals"
        /\ Len(files[p].evaluations) = MaxQuestions

\* C29: when both evaluators run, for every --output and for the default
\* the path the judge's results are saved to is another path than the one of
\* the deterministic results, so that after the run both result sets are on
\* disk.
C29_TwoResultPaths ==
    args.evaluator = "both" =>
        /\ LlmJudgeOutput(args) # OpenAIEvalsOutput(args)
        /\ (Exited /\ exit_code = 0) =>
               /\ LlmJudgeOutput(args) \in ResultFiles
               /\ OpenAIEvalsOutput(args) \in ResultFiles
               /\ files[LlmJudgeOutput(args)] = llm_results
               /\ files[OpenAIEvalsOutput(args)] = evals_results

---------------------------------------------------------------------------
(* Properties of the deterministic batch's summary *)

\* run_evaluation has computed the summary of a non-empty batch
EvalsSummarized ==
    /\ "summary" \in DOMAIN evals_results
    /\ evals_results.summary # <<>>

\* r is the mean of the scores of the check in the records at the indices in I,
\* and 0 when I is empty
IsCheckMean(r, check, I) ==
    LET recs == evals_results.evaluations
        total == RSum([i \in 1..Len(recs) |->
                          IF i \in I THEN recs[i][check].score ELSE Rat(0, 1)])
    IN IF I = {} THEN r = Rat(0, 1)
       ELSE r[1] * total[2] * Cardinality(I) = total[1] * r[2]

\* the records of the batch whose check was graded, not skipped
Graded(check) ==
    {i \in 1..Len(evals_results.evaluations) :
        evals_results.evaluations[i][check].grader # "skipped"}

---------------------------------------------------------------------------
(* Properties of the record's pass mark *)

\* C28: in a record of the deterministic evaluator, if the keyword check,
\* the citation check and the compliance check each report passed (scores
\* >= 0.7, >= 0.5 and >= 0.7), the record's overall passed is true.
C28_AllChecksPassedPasses ==
    (/\ Evaluated
     /\ results.keyword_check.passed
     /\ results.citation_check.passed
     /\ results.compliance_check.passed)
    => results.passed

---------------------------------------------------------------------------
(* ResearchAgent.chat, call by call (src/src/agent/research_agent.py)      *)

MaxChats == 2

\* the tool calls a completion may request: by id, function name and
\* arguments, and whether the search behind self.rag_tool raises on the call
SearchCall(id) ==
    [id |-> id, name |-> "search_investment_research",
     arguments |-> "{\"query\": \"S&P 500 target\"}", rag_raises |-> FALSE]

UnknownCall(id) == [SearchCall(id) EXCEPT !.name = "get_stock_price"]
UndecodableCall(id) == [SearchCall(id) EXCEPT !.arguments = "{query:"]
RaisingCall(id) == [SearchCall(id) EXCEPT !.rag_raises = TRUE]

\* response_message.tool_calls of a completion whose calls all get a result
CleanToolCalls ==
    {<<SearchCall("call_1")>>,
     <<UnknownCall("call_1"), SearchCall("call_2")>>}

\* response_message.tool_calls with a call that raises
FailingToolCalls ==
    {<<UndecodableCall("call_1")>>,
     <<SearchCall("call_1"), UndecodableCall("call_2")>>,
     <<SearchCall("call_1"), RaisingCall("call_2"), SearchCall("call_3")>>}

\* what one call of client.chat.completions.create does
ToolCallsReply(calls) == [kind |-> "message", content |-> "None", tool_calls |-> calls]
FinalReply == [kind |-> "message", content |-> "The target is 6,600", tool_calls |-> <<>>]
RaisingReply == [kind |-> "raises", error |-> "timeout"]

\* What the completion service does during one chat, call after call: up to
\* MaxToolRounds answers with tool calls, then a final text or the failure
ChatScripts ==
    {rounds \o <<last>> :
        rounds \in SeqsUpTo({ToolCallsReply(c) : c \in CleanToolCalls}, MaxToolRounds),
        last \in {FinalReply, RaisingReply}}
    \cup {rounds \o <<ToolCallsReply(c)>> :
            rounds \in SeqsUpTo({ToolCallsReply(c) : c \in CleanToolCalls},
                                MaxToolRounds - 1),
            c \in FailingToolCalls}

\* json.loads(tool_call.function.arguments) raises
ArgumentsUndecodable(tool_call) == SubSeq(tool_call.arguments, 1, 2) # "{\""

\* function_response of a tool call that does not raise
FunctionResponse(tool_call) ==
    IF tool_call.name = "search_investment_research"
    THEN "{\"results\": []}"
    ELSE "{\"error\": \"Unknown function: " \o tool_call.name \o "\"}"

\* the tool message with the id of no call
ToolMessageWithoutId(tool_call) ==
    [role |-> "tool", tool_call_id |-> "None", name |-> tool_call.name,
     content |-> FunctionResponse(tool_call)]

\* {"role": "tool", "tool_call_id": ..., "name": ..., "content": ...}
ToolMessage(tool_call) ==
    [role |-> "tool", tool_call_id |-> tool_call.id, name |-> tool_call.name,
     content |-> FunctionResponse(tool_call)]

\* the except branch with the history put back to what it was before the call
ChatFailsRolledBack(before, msgs, requests, e) ==
    [messages |-> before, requests |-> requests, raised |-> FALSE,
     value |-> "Error processing message: " \o e]

\* except Exception as e: return f"Error processing message: {str(e)}"
ChatFails(before, msgs, requests, e) ==
    [messages |-> msgs, requests |-> requests, raised |-> FALSE,
     value |-> "Error processing message: " \o e]

\* for tool_call in response_message.tool_calls: the history after the loop,
\* or after the call that raised
RECURSIVE ExecuteToolCalls(_, _)
ExecuteToolCalls(msgs, calls) ==
    IF calls = <<>> THEN [messages |-> msgs, error |-> "None"]
    ELSE IF ArgumentsUndecodable(Head(calls))
    THEN [messages |-> msgs,
          error |-> "Expecting property name enclosed in double quotes: "
                        \o "line 1 column 2 (char 1)"]
    ELSE IF Head(calls).name = "search_investment_research" /\ Head(calls).rag_raises
    THEN [messages |-> msgs, error |-> "index not found"]
    ELSE ExecuteToolCalls(Append(msgs, ToolMessage(Head(calls))), Tail(calls))

\* chat from a call of completions.create on: the request is logged with the
\* history it carries, then the while loop runs on the service's reply
RECURSIVE ChatLoop(_, _, _, _)
ChatLoop(before, msgs, requests, replies) ==
    LET reply == Head(replies)
        sent == Append(requests, msgs)
    IN  IF reply.kind = "raises" THEN ChatFails(before, msgs, sent, reply.error)
        ELSE IF reply.tool_calls = <<>>
        THEN [messages |-> Append(msgs, [role |-> "assistant", content |-> reply.content]),
              requests |-> sent, raised |-> FALSE, value |-> reply.content]
        ELSE LET executed ==
                     ExecuteToolCalls(
                         Append(msgs, [role |-> "assistant", content |-> reply.content,
                                       tool_calls |-> reply.tool_calls]),
                         reply.tool_calls)
             IN IF executed.error # "None"
                THEN ChatFails(before, executed.messages, sent, executed.error)
                ELSE ChatLoop(before, executed.messages, sent, Tail(replies))

\* ResearchAgent.chat(user_message) while the service follows the script
run_chat(msgs, user_message, script) ==
    ChatLoop(msgs, Append(msgs, [role |-> "user", content |-> user_message]),
             <<>>, script)

\* a new agent: the history holds the system prompt
InitChat ==
    /\ test_q = NoQuestion
    /\ response = ""
    /\ agent_failed = FALSE
    /\ now = 0
    /\ results = NoResults
    /\ prev_results = NoResults
    /\ runs = 0
    /\ call = NoCall
    /\ evaluations = <<>>
    /\ summary = NoSummary
    /\ pc = "agent"
    /\ questions = <<>>
    /\ messages = <<SystemMessage>>
    /\ agent_responses = <<>>
    /\ invocations = <<>>
    /\ judge_prompts = <<>>
    /\ judge_replies = <<>>
    /\ llm_results = NoResultSet
    /\ evals_results = NoResultSet
    /\ CliIdle

\* a call of agent.chat with the next question of the test file
AgentChats ==
    /\ pc = "agent"
    /\ Len(invocations) < MaxChats
    /\ \E script \in ChatScripts :
        LET user_message == TestFile[(Len(invocations) % Len(TestFile)) + 1].question
            returned == run_chat(messages, user_message, script)
        IN  /\ messages' = returned.messages
            /\ invocations' =
                   Append(invocations,
                          [user_message |-> user_message, script |-> script,
                           before |-> messages, requests |-> returned.requests,
                           after |-> returned.messages, raised |-> returned.raised,
                           returned |-> returned.value])
    /\ UNCHANGED <<unused, now, evaluations, summary, pc, questions, agent_responses,
                   judge_prompts, judge_replies, llm_results, evals_results, cli>>

\* a call of agent.clear_history between two chats
AgentClearsHistory ==
    /\ pc = "agent"
    /\ Len(invocations) < MaxChats
    /\ \E keep_system_prompt \in BOOLEAN :
        messages' = clear_history(messages, keep_system_prompt)
    /\ messages' # messages
    /\ UNCHANGED <<unused, now, evaluations, summary, pc, questions, agent_responses,
                   invocations, judge_prompts, judge_replies, llm_results,
                   evals_results, cli>>

NextChat == AgentChats \/ AgentClearsHistory

SpecChat == InitChat /\ [][NextChat]_vars

---------------------------------------------------------------------------
(* Properties of ResearchAgent.chat *)

\* the tool calls of the script's completions that request some, round by round
RoundsOf(script) ==
    LET with == SelectSeq(script, LAMBDA r : r.kind = "message" /\ r.tool_calls # <<>>)
    IN [k \in 1..Len(with) |-> with[k].tool_calls]

\* nothing raises while the script runs: every completion arrives, every
\* call's arguments decode and the search answers
Undisturbed(script) ==
    \A k \in 1..Len(script) :
        /\ script[k].kind = "message"
        /\ \A i \in 1..Len(script[k].tool_calls) :
            /\ ~ArgumentsUndecodable(script[k].tool_calls[i])
            /\ ~script[k].tool_calls[i].rag_raises

\* the messages a chat has appended to the history it found
Added(c) == SubSeq(c.after, Len(c.before) + 1, Len(c.after))

\* the number of messages the first n rounds append: the assistant's message
\* and one per tool call
RECURSIVE RoundsLength(_, _)
RoundsLength(rounds, n) ==
    IF n = 0 THEN 0 ELSE RoundsLength(rounds, n - 1) + 1 + Len(rounds[n])

C30_FailedChatKeepsHistory ==
    \A j \in 1..Len(invocations) :
        LET c == invocations[j]
            user == [role |-> "user", content |-> c.user_message]
            sent == c.requests[Len(c.requests)]
            last == c.after[Len(c.after)]
        IN  /\ ~c.raised
            /\ ~Undisturbed(c.script) =>
                /\ SubSeq(c.returned, 1, 26) = "Error processing message: "
                /\ Len(c.after) >= Len(sent)
                /\ SubSeq(c.after, 1, Len(c.before) + 1) = Append(c.before, user)
                /\ SubSeq(c.after, 1, Len(sent)) = sent
                /\ \A i \in Len(sent) + 1..Len(c.after) :
                       \/ c.after[i].role = "tool"
                       \/ c.after[i].role = "assistant" /\ "tool_calls" \in DOMAIN c.after[i]
                /\ ~(last.role = "assistant" /\ "tool_calls" \notin DOMAIN last)
                /\ (j < Len(invocations) /\ invocations[j + 1].before = c.after) =>
                       invocations[j + 1].requests[1] =
                           Append(c.after, [role |-> "user",
                                            content |-> invocations[j + 1].user_message])

\* the search raised on the second tool call of the first chat; the second
\* chat, without clear_history between, sent the user message, the
\* assistant's tool-call message and the first call's result of the first
C30_Witness ==
    /\ Len(invocations) = 2
    /\ ~Undisturbed(invocations[1].script)
    /\ invocations[1].returned = "Error processing message: index not found"
    /\ Len(invocations[1].after) = Len(invocations[1].before) + 3
    /\ invocations[1].after[Len(invocations[1].after)].role = "tool"
    /\ invocations[2].before = invocations[1].after
    /\ Len(invocations[2].requests[1]) = Len(invocations[1].after) + 1
    /\ invocations[2].returned = "The target is 6,600"

=============================================================================
